---- MODULE Spec2Model ----
(***************************************************************************)
(* A model of the kilonova code's time-integration driver (scheme.rs),     *)
(* global state (state.rs), mesh topology (mesh.rs) and hydrodynamics      *)
(* error paths (physics/*.rs).                                             *)
(*                                                                         *)
(* Floating-point quantities are modelled by exact rationals; radii are    *)
(* reference_radius * (1 + block_dlogr)^i with the rational growth factor  *)
(* (num_radial_zones + block_size) / num_radial_zones.                     *)
(***************************************************************************)
EXTENDS Integers, Sequences, FiniteSets, TLC

(***************************************************************************)
(* Bounds of the model.                                                    *)
(***************************************************************************)
MaxRadius == 4      \* largest inner_radius / outer_radius drawn for a mesh
MaxTime   == 3      \* state.time is not advanced beyond this
MaxIter   == 3      \* no full step is started at or beyond this iteration

(***************************************************************************)
(* Program constants.                                                      *)
(***************************************************************************)
I32MAX == 2147483647          \* i32::MAX, the sentinel of an empty map
I32MIN == -I32MAX - 1         \* i32::MIN
F64MaxExp == 1024             \* beyond this, powf over/underflows in f64

(***************************************************************************)
(* Exact rationals, kept reduced with a positive denominator, as           *)
(* num::rational::Rational64 keeps them.                                   *)
(***************************************************************************)
Abs(x) == IF x < 0 THEN -x ELSE x

RECURSIVE GCD(_, _)
GCD(a, b) == IF b = 0 THEN a ELSE GCD(b, a % b)

\* a fraction in lowest terms with a positive denominator
Reduce(n, d, g) == [n |-> n \div g, d |-> d \div g]
Rat(n, d) ==
    IF d < 0 THEN Reduce(-n, -d, GCD(Abs(n), -d)) ELSE Reduce(n, d, GCD(Abs(n), d))

RInt(k)    == [n |-> k, d |-> 1]
RLcm(a, b) == (a.d \div GCD(a.d, b.d)) * b.d
RAdd(a, b) ==
    IF a.d = b.d THEN Rat(a.n + b.n, a.d)
    ELSE Rat(a.n * (RLcm(a, b) \div a.d) + b.n * (RLcm(a, b) \div b.d), RLcm(a, b))
RSub(a, b) ==
    IF a.d = b.d THEN Rat(a.n - b.n, a.d)
    ELSE Rat(a.n * (RLcm(a, b) \div a.d) - b.n * (RLcm(a, b) \div b.d), RLcm(a, b))
RMul(a, b) ==
    IF a.d = 1 /\ b.d = 1 THEN RInt(a.n * b.n) ELSE Rat(a.n * b.n, a.d * b.d)
RLt(a, b)  == a.n * b.d < b.n * a.d
RMax(a, b) == IF RLt(a, b) THEN b ELSE a
RIsInt(a)  == a.d = 1

RECURSIVE Pow(_, _)
Pow(b, e) == IF e = 0 THEN 1 ELSE b * Pow(b, e - 1)

\* Option<T>: None is the empty sequence, Some(x) the sequence of x
None == << >>
Some(x) == <<x>>
UnwrapOr(opt, default) == IF opt = None THEN default ELSE opt[1]
Ok(x) == [ok |-> TRUE, value |-> x]
Err(e) == [ok |-> FALSE, error |-> e]

SetMin(S) == CHOOSE x \in S : \A y \in S : x <= y
SetMax(S) == CHOOSE x \in S : \A y \in S : y <= x

VARIABLES
    mesh,       \* the Mesh configuration
    hydro,      \* the hydrodynamics configuration (runge_kutta_order, ...)
    control,    \* the Control configuration (fold)
    model,      \* the initial model
    state,      \* State {time, iteration, solution}
    geometry,   \* the driver's HashMap<BlockIndex, GridGeometry> (its keys)
    pc,         \* position of the driver inside scheme::advance
    foldLeft,   \* remaining iterations of the `for _ in 0..fold` loop
    dt,         \* the time step of the current full step
    s0,         \* the state saved by the Runge-Kutta driver at stage 0
    rkpos,      \* position in the Runge-Kutta stage program
    entry,      \* the state with which advance was last entered, and the number of calls
    recon,      \* record of the last add_remove_blocks call
    tasks,      \* the tasks spawned on the runtime, per Runge-Kutta operation
    phase,      \* position of the driver inside advance_rk / weighted_average
    workers,    \* control.num_threads: the width of the worker pool
    call,       \* the function last called outside the driver, with its arguments
    config,     \* the object of that call: the object that is patched, the lookup table, the App
    ret         \* what that call returned

taskVars == <<tasks, phase, workers>>
vars == <<mesh, hydro, control, model, state, geometry, pc, foldLeft, dt, s0, rkpos,
          entry, recon, tasks, phase, workers, call, config, ret>>

(***************************************************************************)
(* Mesh (mesh.rs)                                                          *)
(***************************************************************************)

\* Mesh::moving_excision_surfaces
MovingExcisionSurfaces(m) ==
    m.inner_excision_speed > 0 \/ m.outer_excision_speed > 0

\* Mesh::inner_excision_surface
InnerExcisionSurface(m, time) ==
    LET t_start == UnwrapOr(m.excision_delay, 0)
    IN  RAdd(RInt(m.inner_radius),
             RMul(RMax(RSub(time, RInt(t_start)), RInt(0)), RInt(m.inner_excision_speed)))

\* Mesh::outer_excision_surface
OuterExcisionSurface(m, time) ==
    LET t_start == UnwrapOr(m.excision_delay, 0)
    IN  RAdd(RInt(m.outer_radius),
             RMul(RMax(RSub(time, RInt(t_start)), RInt(0)), RInt(m.outer_excision_speed)))

MeshValidateResult_NoDelayCheck(m, time) ==
    IF m.reference_radius <= 0 \/ m.inner_radius < 0 \/ m.outer_radius < 0
    THEN Err("all radii must be positive")
    ELSE IF RLt(OuterExcisionSurface(m, time), RInt(m.reference_radius))
    THEN Err("the reference radius is outside the outer excision surface")
    ELSE IF m.inner_excision_speed < 0 \/ m.outer_excision_speed < 0
    THEN Err("the excision surface speeds must be non-negative")
    ELSE IF m.outer_excision_speed < m.inner_excision_speed
    THEN Err("outer_excision_speed < inner_excision_speed")
    ELSE IF m.block_size < 2
    THEN Err("must have at least 2 radial zones per block")
    ELSE IF m.num_polar_zones # 1 /\ m.num_polar_zones < 16
    THEN Err("must have at least 2 radial zones per block")
    ELSE IF m.num_polar_zones = 1 /\ m.num_radial_zones = None
    THEN Err("num_radial_zones is not optional when num_polar_zones=1")
    ELSE Ok("()")

\* Mesh::validate: the first rule that is broken, in the order of the code
MeshValidateResult(m, time) ==
    IF m.reference_radius <= 0 \/ m.inner_radius < 0 \/ m.outer_radius < 0
    THEN Err("all radii must be positive")
    ELSE IF RLt(OuterExcisionSurface(m, time), RInt(m.reference_radius))
    THEN Err("the reference radius is outside the outer excision surface")
    ELSE IF UnwrapOr(m.excision_delay, 0) < 0
    THEN Err("the excision delay time must be non-negative")
    ELSE IF m.inner_excision_speed < 0 \/ m.outer_excision_speed < 0
    THEN Err("the excision surface speeds must be non-negative")
    ELSE IF m.outer_excision_speed < m.inner_excision_speed
    THEN Err("outer_excision_speed < inner_excision_speed")
    ELSE IF m.block_size < 2
    THEN Err("must have at least 2 radial zones per block")
    ELSE IF m.num_polar_zones # 1 /\ m.num_polar_zones < 16
    THEN Err("must have at least 2 radial zones per block")
    ELSE IF m.num_polar_zones = 1 /\ m.num_radial_zones = None
    THEN Err("num_radial_zones is not optional when num_polar_zones=1")
    ELSE Ok("()")

\* Mesh::validate(time).is_ok()
MeshValidate(m, time) == MeshValidateResult(m, time).ok

\* 1 + Mesh::block_dlogr, as the fraction GrowthNum / GrowthDen
\* (drawn meshes give num_radial_zones, so that zone_dlogr = 1 / nr is rational)
GrowthNum(m) == m.num_radial_zones[1] + m.block_size
GrowthDen(m) == m.num_radial_zones[1]

\* reference_radius * (1 + block_dlogr).powf(e) < x, for a rational x.  The
\* power overflows to +inf or underflows to 0.0 beyond the f64 range.
RadiusLt(m, e, x) ==
    IF e > F64MaxExp THEN FALSE
    ELSE IF e < -F64MaxExp THEN 0 < x.n
    ELSE IF e >= 0
         THEN m.reference_radius * Pow(GrowthNum(m), e) * x.d < x.n * Pow(GrowthDen(m), e)
         ELSE m.reference_radius * Pow(GrowthDen(m), -e) * x.d < x.n * Pow(GrowthNum(m), -e)

\* Mesh::subgrid_extent(index).inner_radius < x
SubgridInnerLt(m, index, x) == RadiusLt(m, index[1], x)

\* Mesh::subgrid_extent(index).outer_radius < x; the exponent is computed in
\* floating point (index.0 as f64 + 1.0), so it cannot wrap
SubgridOuterLt(m, index, x) ==
    IF index[1] >= F64MaxExp THEN FALSE ELSE RadiusLt(m, index[1] + 1, x)

\* Mesh::grid_blocks: the loop `for i in 0..` until inner_radius >= OES(time)
RECURSIVE GridBlocksFrom(_, _, _)
GridBlocksFrom(m, time, i) ==
    IF ~SubgridInnerLt(m, <<i, 0>>, OuterExcisionSurface(m, time))
    THEN {}
    ELSE {<<i, 0>>} \cup GridBlocksFrom(m, time, i + 1)

GridBlocks(m, time) == GridBlocksFrom(m, time, 0)

(***************************************************************************)
(* Global state (state.rs)                                                 *)
(***************************************************************************)

\* BlockState::from_model: a block freshly evaluated from the initial model
BlockFromModel(time) == [origin |-> "model", time |-> time]

\* State::from_model
StateFromModel(geo, time) ==
    [time      |-> time,
     iteration |-> Rat(0, 1),
     solution  |-> [i \in geo |-> BlockFromModel(time)]]

\* State::min_max_block_indexes_offset_by
MinMaxBlockIndexesOffsetBy(st, delta) ==
    LET keys == DOMAIN st.solution
        min  == SetMin({I32MAX} \cup {i[1] - delta : i \in keys})
        max  == SetMax({I32MIN} \cup {i[1] + delta : i \in keys})
    IN  << <<min, 0>>, <<max, 0>> >>

\* State::inner_outer_boundary_indexes
InnerOuterBoundaryIndexes(st) == MinMaxBlockIndexesOffsetBy(st, 1)

\* State::inner_outer_block_indexes
InnerOuterBlockIndexes(st) == MinMaxBlockIndexesOffsetBy(st, 0)

\* WeightedAverage for BlockState
BlockWeightedAverage(b1, br, b0) == [origin |-> "averaged", time |-> b1.time]

AverageIteration_Swapped(it1, br, it0) ==
    RAdd(RMul(it1, br), RMul(it0, RAdd(RSub(RInt(0), br), RInt(1))))

\* The iteration of a weighted average:
\*   self.iteration * (-br + 1) + s0.iteration * br
AverageIteration(it1, br, it0) ==
    RAdd(RMul(it1, RAdd(RSub(RInt(0), br), RInt(1))), RMul(it0, br))

\* The time of a weighted average: self.time * (-bf + 1.) + s0.time * bf
AverageTime(t1, br, t0) ==
    RAdd(RMul(t1, RAdd(RSub(RInt(0), br), RInt(1))), RMul(t0, br))

\* The key set of a weighted average: the blocks of self, each mixed with
\* the block of s0 at the same index
AverageKeys(s1, prev) == DOMAIN s1.solution

\* WeightedAverage / WeightedAverageAsync for State
StateWeightedAverage(s1, br, prev) ==
    [time      |-> AverageTime(s1.time, br, prev.time),
     iteration |-> AverageIteration(s1.iteration, br, prev.iteration),
     solution  |-> [i \in AverageKeys(s1, prev) |->
                       BlockWeightedAverage(s1.solution[i], br, prev.solution[i])]]

\* the lookups s0.solution[&index] of a weighted average all hit
AverageLookupsHit(s1, prev) == DOMAIN s1.solution \subseteq DOMAIN prev.solution

(***************************************************************************)
(* Scheme (scheme.rs)                                                      *)
(***************************************************************************)

\* the keys of stage_map in advance_rk: one staging task per block of the
\* solution, plus the two boundary blocks
StageMapKeys(st) ==
    LET bnd == InnerOuterBoundaryIndexes(st)
    IN  DOMAIN st.solution \cup {bnd[1], bnd[2]}

\* the stencil of the update task of block `index`: il, i0, ir
Stencil(index) ==
    << <<index[1] - 1, index[2]>>, <<index[1], index[2]>>, <<index[1] + 1, index[2]>> >>

\* the lookups stage_map[&il], stage_map[&i0], stage_map[&ir] all hit
StageLookupsHit(st) ==
    \A index \in DOMAIN st.solution :
        \A k \in 1..3 : Stencil(index)[k] \in StageMapKeys(st)

\* a stage map whose boundary blocks are evaluated at the start time
StageMapBlocks_AtStartTime(st) ==
    [k \in StageMapKeys(st) |->
        IF k \in {InnerOuterBoundaryIndexes(st)[1], InnerOuterBoundaryIndexes(st)[2]}
        THEN BlockFromModel(Rat(0, 1)) ELSE st.solution[k]]

\* the blocks that advance_rk stages: those of the solution, then the two
\* boundary blocks `BlockState::from_model(model, hydro, &bnd_geom, state.time)`
StageMapBlocks(st) ==
    [k \in StageMapKeys(st) |->
        IF k \in {InnerOuterBoundaryIndexes(st)[1], InnerOuterBoundaryIndexes(st)[2]}
        THEN BlockFromModel(st.time) ELSE st.solution[k]]

UpdateTaskKeys_WithGhosts(st) == StageMapKeys(st)

\* the indexes of the update tasks of advance_rk, collected into the new
\* solution by join_all
UpdateTaskKeys(st) == DOMAIN st.solution

\* the iteration of the state returned by advance_rk: state.iteration + 1
AdvanceRkIteration(it) == RAdd(it, RInt(1))

\* advance_rk as a whole
AdvanceRk(st, step) ==
    [time      |-> RAdd(st.time, step),
     iteration |-> AdvanceRkIteration(st.iteration),
     solution  |-> [i \in UpdateTaskKeys(st) |-> [origin |-> "updated", time |-> st.time]]]

RemoveInner_InnerRadius(m, st) ==
    SubgridInnerLt(m, InnerOuterBlockIndexes(st)[1], InnerExcisionSurface(m, st.time))

\* the removal test of add_remove_blocks
RemoveInner(m, st) ==
    SubgridOuterLt(m, InnerOuterBlockIndexes(st)[1], InnerExcisionSurface(m, st.time))

\* the insertion test of add_remove_blocks
InsertOuter(m, st) ==
    SubgridOuterLt(m, InnerOuterBlockIndexes(st)[2], OuterExcisionSurface(m, st.time))

\* an insertion that leaves a gap after the outermost block
NewBlockIndex_Skip(st) ==
    <<InnerOuterBlockIndexes(st)[2][1] + 2, InnerOuterBlockIndexes(st)[2][2]>>

\* the index add_remove_blocks inserts at
NewBlockIndex(st) ==
    LET outer_index == InnerOuterBlockIndexes(st)[2]
    IN  <<outer_index[1] + 1, outer_index[2]>>

\* the blocks add_remove_blocks removes
RemovedBlocks(m, st) ==
    IF RemoveInner(m, st) THEN {InnerOuterBlockIndexes(st)[1]} ELSE {}

\* add_remove_blocks: the solution map afterwards
AddRemoveSolution(m, st) ==
    LET kept == DOMAIN st.solution \ RemovedBlocks(m, st)
        keys == IF InsertOuter(m, st) THEN kept \cup {NewBlockIndex(st)} ELSE kept
    IN  [i \in keys |->
            IF InsertOuter(m, st) /\ i = NewBlockIndex(st)
            THEN BlockFromModel(st.time)
            ELSE st.solution[i]]

\* add_remove_blocks: the geometry map afterwards
AddRemoveGeometry(m, st, geo) ==
    LET kept == geo \ RemovedBlocks(m, st)
    IN  IF InsertOuter(m, st) THEN kept \cup {NewBlockIndex(st)} ELSE kept

(***************************************************************************)
(* The Runge-Kutta driver (godunov_core::runge_kutta, outside this         *)
(* repository): the sequence of updates "U" and of weighted averages with  *)
(* the stage-0 state that makes one full step.                             *)
(***************************************************************************)
RKOrders == {"RK1", "RK2", "RK3"}

RKProgram(order) ==
    CASE order = "RK1" -> << [op |-> "U"] >>
      [] order = "RK2" -> << [op |-> "U"], [op |-> "U"], [op |-> "A", b |-> Rat(1, 2)] >>
      [] order = "RK3" -> << [op |-> "U"], [op |-> "U"], [op |-> "A", b |-> Rat(3, 4)],
                             [op |-> "U"], [op |-> "A", b |-> Rat(1, 3)] >>

(***************************************************************************)
(* The driver: main.rs run -> scheme::advance                              *)
(***************************************************************************)
SpeedSet == {0, 1, 2}
DelaySet == {None, Some(1)}
DtSet    == {0, 1, 2}
FoldSet  == {1, 2}
StartTime == Rat(0, 1)

MeshSpace ==
    [reference_radius     : {1},
     inner_radius         : 0..MaxRadius,
     outer_radius         : 0..MaxRadius,
     inner_excision_speed : SpeedSet,
     outer_excision_speed : SpeedSet,
     excision_delay       : DelaySet,
     num_radial_zones     : {Some(2)},
     num_polar_zones      : {1},
     block_size           : {2}]

NoRecon == [called |-> FALSE, pre |-> {}, time |-> StartTime, removed |-> {}, inserted |-> {}]

Init ==
    /\ mesh \in {m \in MeshSpace : MeshValidate(m, StartTime)}
    /\ hydro \in [runge_kutta_order : RKOrders]
    /\ control \in [fold : FoldSet]
    /\ model = [seed |-> 0]
    /\ geometry = GridBlocks(mesh, StartTime)
    /\ state = StateFromModel(geometry, StartTime)
    /\ pc = "idle"
    /\ foldLeft = 0
    /\ dt = 0
    /\ s0 = state
    /\ rkpos = 0
    /\ entry = [state |-> state, calls |-> 0]
    /\ recon = NoRecon
    /\ tasks = << >>
    /\ phase = "atomic"
    /\ workers = 0
    /\ call = None
    /\ config = None
    /\ ret = None

\* run: scheme::advance(state, ..., control.fold) is entered
Advance ==
    /\ pc = "idle"
    /\ pc' = "top"
    /\ foldLeft' = control.fold
    /\ entry' = [state |-> state, calls |-> entry.calls + 1]
    /\ UNCHANGED <<call, config, ret, mesh, hydro, control, model, state, geometry, dt, s0, rkpos, recon, taskVars>>

\* advance: the loop head, `if mesh.moving_excision_surfaces()
\* { add_remove_blocks(...) }`
Reconcile ==
    /\ pc = "top"
    /\ foldLeft > 0
    /\ RLt(state.iteration, RInt(MaxIter))
    /\ IF MovingExcisionSurfaces(mesh)
       THEN /\ state' = [state EXCEPT !.solution = AddRemoveSolution(mesh, state)]
            /\ geometry' = AddRemoveGeometry(mesh, state, geometry)
       ELSE UNCHANGED <<state, geometry>>
    /\ recon' = [called   |-> MovingExcisionSurfaces(mesh),
                 pre      |-> DOMAIN state.solution,
                 time     |-> state.time,
                 removed  |-> DOMAIN state.solution \ DOMAIN state'.solution,
                 inserted |-> DOMAIN state'.solution \ DOMAIN state.solution]
    /\ pc' = "dt"
    /\ UNCHANGED <<call, config, ret, mesh, hydro, control, model, foldLeft, dt, s0, rkpos, entry, taskVars>>

\* advance: `let dt = hydro.time_step(&state, mesh)`; the value depends on
\* the cell data, which this specification leaves open
TimeStepCore ==
    /\ pc = "dt"
    /\ \E d \in DtSet :
          /\ ~RLt(RInt(MaxTime), RAdd(state.time, RInt(d)))
          /\ dt' = d
    /\ s0' = state
    /\ rkpos' = 1
    /\ pc' = "rk"
    /\ UNCHANGED <<call, config, ret, mesh, hydro, control, model, state, geometry, foldLeft, entry, recon>>

TimeStep == TimeStepCore /\ UNCHANGED taskVars

\* the bookkeeping after one operation of the Runge-Kutta program: the last
\* one commits the new state and closes the loop iteration
RkNext ==
    IF rkpos = Len(RKProgram(hydro.runge_kutta_order))
    THEN /\ pc' = "top"
         /\ foldLeft' = foldLeft - 1
         /\ rkpos' = 0
    ELSE /\ pc' = "rk"
         /\ foldLeft' = foldLeft
         /\ rkpos' = rkpos + 1

\* one advance_rk call of the Runge-Kutta program
RkUpdate ==
    /\ pc = "rk"
    /\ RKProgram(hydro.runge_kutta_order)[rkpos].op = "U"
    /\ call' = [fn |-> "advance_rk", state |-> state, stage_map |-> StageMapBlocks(state)]
    /\ IF StageLookupsHit(state)
       THEN state' = AdvanceRk(state, RInt(dt)) /\ RkNext
       ELSE pc' = "panic" /\ UNCHANGED <<state, foldLeft, rkpos>>
    /\ UNCHANGED <<config, ret, mesh, hydro, control, model, geometry, dt, s0, entry, recon, taskVars>>

\* one weighted average of the Runge-Kutta program
RkAverage ==
    /\ pc = "rk"
    /\ RKProgram(hydro.runge_kutta_order)[rkpos].op = "A"
    /\ IF AverageLookupsHit(state, s0)
       THEN /\ state' = StateWeightedAverage(state, RKProgram(hydro.runge_kutta_order)[rkpos].b, s0)
            /\ RkNext
       ELSE pc' = "panic" /\ UNCHANGED <<state, foldLeft, rkpos>>
    /\ UNCHANGED <<call, config, ret, mesh, hydro, control, model, geometry, dt, s0, entry, recon, taskVars>>

\* advance: the loop is over, `Ok(state)`
Return ==
    /\ pc = "top"
    /\ foldLeft = 0
    /\ pc' = "idle"
    /\ UNCHANGED <<call, config, ret, mesh, hydro, control, model, state, geometry, foldLeft, dt, s0, rkpos, entry, recon, taskVars>>

Next == Advance \/ Reconcile \/ TimeStep \/ RkUpdate \/ RkAverage \/ Return

Spec == Init /\ [][Next]_vars

\* run, entered with the state of a checkpoint: the state is the one written
\* between two calls of advance, and the geometry is built anew,
\* `let mut block_geometry = mesh.grid_blocks_geometry(state.time)`
Restart ==
    /\ pc = "idle"
    /\ entry.calls > 0
    /\ geometry' = GridBlocks(mesh, state.time)
    /\ UNCHANGED <<call, config, ret, mesh, hydro, control, model, state, pc, foldLeft, dt, s0,
                   rkpos, entry, recon, taskVars>>

NextRestart == Next \/ Restart

SpecRestart == Init /\ [][NextRestart]_vars

\* The same driver, started from the meshes whose initial grid is not empty
\* and whose inner excision surface starts inside the outer one.
InitRegular ==
    /\ Init
    /\ DOMAIN state.solution # {}
    /\ mesh.inner_radius <= mesh.outer_radius

SpecRegular == InitRegular /\ [][Next]_vars

(***************************************************************************)
(* The tasks of one full step on the worker pool.  advance_rk spawns one   *)
(* staging task per entry of stage_map and one update task per block, and  *)
(* joins the update tasks; the weighted average spawns one task per block  *)
(* and joins them.  tasks[p] holds the tasks of the p-th operation of the  *)
(* Runge-Kutta program; phase is the position of the driver thread inside  *)
(* that operation; workers is the width of the pool (Control.num_threads). *)
(***************************************************************************)
MaxTaskBlocks == 2
MaxWorkers == 2

\* the tasks of one operation, none spawned yet
NewTasks(st, prev, operation) ==
    [op    |-> operation,
     stage |-> IF operation = "U"
               THEN [k \in StageMapKeys(st) |-> "unspawned"] ELSE << >>,
     upd   |-> IF operation = "U"
               THEN [k \in UpdateTaskKeys(st) |-> [st |-> "unspawned", saw |-> << >>]]
               ELSE << >>,
     avg   |-> IF operation = "A"
               THEN [k \in AverageKeys(st, prev) |-> "unspawned"] ELSE << >>]

\* where the driver thread starts in an operation: the first loop, or past
\* it when the solution is empty
StartPhase(st, operation) ==
    IF operation = "U"
    THEN IF DOMAIN st.solution = {} THEN "inner_bnd" ELSE "stages"
    ELSE IF DOMAIN st.solution = {} THEN "avg_join" ELSE "avg_spawn"

\* a pool whose workers stay with an update task while it is suspended
Running_Blocking ==
    Cardinality({pk \in UNION {{<<p, k>> : k \in DOMAIN tasks[p].stage} : p \in DOMAIN tasks} :
                    tasks[pk[1]].stage[pk[2]] = "running"})
    + Cardinality({pk \in UNION {{<<p, k>> : k \in DOMAIN tasks[p].upd} : p \in DOMAIN tasks} :
                    tasks[pk[1]].upd[pk[2]].st = "awaiting"})

\* the number of workers busy with a staging task
Running ==
    Cardinality({pk \in UNION {{<<p, k>> : k \in DOMAIN tasks[p].stage} : p \in DOMAIN tasks} :
                    tasks[pk[1]].stage[pk[2]] = "running"})

StagedReady_NoWait(rec, key) == TRUE

\* `stage_map[&key].clone().await` returns: the shared future of the staging
\* task of `key` has completed
StagedReady(rec, key) == rec.stage[key] = "done"

JoinReady_NoWait(rec) == TRUE

\* `join_all(...).await` returns: every joined task has finished
JoinReady(rec) ==
    IF rec.op = "U"
    THEN \A i \in DOMAIN rec.upd : rec.upd[i].st \in {"done", "panicked"}
    ELSE \A i \in DOMAIN rec.avg : rec.avg[i] = "done"

\* the static meshes of 0..MaxTaskBlocks blocks
RECURSIVE TaskMeshes(_)
TaskMeshes(n) ==
    IF n < 0 THEN {}
    ELSE TaskMeshes(n - 1) \cup
         {[reference_radius |-> 1, inner_radius |-> 0, outer_radius |-> Pow(2, n),
           inner_excision_speed |-> 0, outer_excision_speed |-> 0,
           excision_delay |-> None, num_radial_zones |-> Some(2),
           num_polar_zones |-> 1, block_size |-> 2]}

InitTasks ==
    /\ mesh \in {m \in TaskMeshes(MaxTaskBlocks) : MeshValidate(m, StartTime)}
    /\ hydro \in [runge_kutta_order : RKOrders]
    /\ control = [fold |-> 1]
    /\ model = [seed |-> 0]
    /\ geometry = GridBlocks(mesh, StartTime)
    /\ state = StateFromModel(geometry, StartTime)
    /\ pc = "idle"
    /\ foldLeft = 0
    /\ dt = 0
    /\ s0 = state
    /\ rkpos = 0
    /\ entry = [state |-> state, calls |-> 0]
    /\ recon = NoRecon
    /\ tasks = << >>
    /\ phase = "atomic"
    /\ workers \in 1..MaxWorkers
    /\ call = None
    /\ config = None
    /\ ret = None

\* run: the first call of scheme::advance
TAdvance ==
    /\ entry.calls = 0
    /\ pc = "idle"
    /\ pc' = "top"
    /\ foldLeft' = control.fold
    /\ entry' = [state |-> state, calls |-> entry.calls + 1]
    /\ UNCHANGED <<call, config, ret, mesh, hydro, control, model, state, geometry, dt, s0, rkpos, recon, taskVars>>

\* advance: the time step, and the Runge-Kutta driver enters its first
\* operation
TTimeStep ==
    /\ TimeStepCore
    /\ dt' = 1
    /\ tasks' = << NewTasks(state, state, RKProgram(hydro.runge_kutta_order)[1].op) >>
    /\ phase' = StartPhase(state, RKProgram(hydro.runge_kutta_order)[1].op)
    /\ UNCHANGED workers

\* advance_rk, the loop `for (index, state) in &state.solution
\* { stage_primitive_and_scalar(...) }`: one iteration, in the order of the
\* hash map
TSpawnStage ==
    /\ pc = "rk" /\ phase = "stages"
    /\ \E i \in DOMAIN state.solution :
          /\ tasks[rkpos].stage[i] = "unspawned"
          /\ tasks' = [tasks EXCEPT ![rkpos].stage[i] = "queued"]
          /\ phase' = IF \A j \in DOMAIN state.solution \ {i} :
                            tasks[rkpos].stage[j] # "unspawned"
                      THEN "inner_bnd" ELSE "stages"
    /\ UNCHANGED <<call, config, ret, mesh, hydro, control, model, state, geometry, pc, foldLeft, dt, s0, rkpos,
                   entry, recon, workers>>

\* advance_rk: stage_primitive_and_scalar(inner_bnd_index, ...)
TSpawnInnerBoundary ==
    /\ pc = "rk" /\ phase = "inner_bnd"
    /\ tasks' = [tasks EXCEPT ![rkpos].stage[InnerOuterBoundaryIndexes(state)[1]] = "queued"]
    /\ phase' = "outer_bnd"
    /\ UNCHANGED <<call, config, ret, mesh, hydro, control, model, state, geometry, pc, foldLeft, dt, s0, rkpos,
                   entry, recon, workers>>

\* advance_rk: stage_primitive_and_scalar(outer_bnd_index, ...)
TSpawnOuterBoundary ==
    /\ pc = "rk" /\ phase = "outer_bnd"
    /\ tasks' = [tasks EXCEPT ![rkpos].stage[InnerOuterBoundaryIndexes(state)[2]] = "queued"]
    /\ phase' = IF DOMAIN state.solution = {} THEN "join" ELSE "updates"
    /\ UNCHANGED <<call, config, ret, mesh, hydro, control, model, state, geometry, pc, foldLeft, dt, s0, rkpos,
                   entry, recon, workers>>

\* advance_rk, the loop `for (&index, state) in &state.solution
\* { ...; new_state_vec.push(runtime.spawn(entry)) }`: one iteration
TSpawnUpdate ==
    /\ pc = "rk" /\ phase = "updates"
    /\ \E i \in DOMAIN tasks[rkpos].upd :
          /\ tasks[rkpos].upd[i].st = "unspawned"
          /\ tasks' = [tasks EXCEPT ![rkpos].upd[i].st = "awaiting"]
          /\ phase' = IF \A j \in DOMAIN tasks[rkpos].upd \ {i} :
                            tasks[rkpos].upd[j].st # "unspawned"
                      THEN "join" ELSE "updates"
    /\ UNCHANGED <<call, config, ret, mesh, hydro, control, model, state, geometry, pc, foldLeft, dt, s0, rkpos,
                   entry, recon, workers>>

\* a worker takes a staging task from the queue
TStageRun ==
    /\ Running < workers
    /\ \E p \in DOMAIN tasks : \E k \in DOMAIN tasks[p].stage :
          /\ tasks[p].stage[k] = "queued"
          /\ tasks' = [tasks EXCEPT ![p].stage[k] = "running"]
    /\ UNCHANGED <<call, config, ret, mesh, hydro, control, model, state, geometry, pc, foldLeft, dt, s0, rkpos,
                   entry, recon, phase, workers>>

\* a staging task returns its primitives and scalars
TStageDone ==
    /\ \E p \in DOMAIN tasks : \E k \in DOMAIN tasks[p].stage :
          /\ tasks[p].stage[k] = "running"
          /\ tasks' = [tasks EXCEPT ![p].stage[k] = "done"]
    /\ UNCHANGED <<call, config, ret, mesh, hydro, control, model, state, geometry, pc, foldLeft, dt, s0, rkpos,
                   entry, recon, phase, workers>>

\* an update task passes its next `stage_map[&..].clone().await`, of il, i0
\* and ir in this order, and past the third computes its new block; a lookup
\* that misses panics the task
TUpdateAwait ==
    /\ Running < workers
    /\ \E p \in DOMAIN tasks : \E i \in DOMAIN tasks[p].upd :
          LET rec == tasks[p]
              u   == rec.upd[i]
              key == Stencil(i)[Len(u.saw) + 1]
          IN  /\ u.st = "awaiting"
              /\ IF key \notin DOMAIN rec.stage
                 THEN tasks' = [tasks EXCEPT ![p].upd[i].st = "panicked"]
                 ELSE /\ StagedReady(rec, key)
                      /\ tasks' = [tasks EXCEPT ![p].upd[i] =
                            [st  |-> IF Len(u.saw) = 2 THEN "done" ELSE "awaiting",
                             saw |-> Append(u.saw, [index |-> key, status |-> rec.stage[key]])]]
    /\ UNCHANGED <<call, config, ret, mesh, hydro, control, model, state, geometry, pc, foldLeft, dt, s0, rkpos,
                   entry, recon, phase, workers>>

\* the Runge-Kutta driver goes on to its next operation, or commits the step
TRkNext ==
    /\ RkNext
    /\ IF rkpos = Len(RKProgram(hydro.runge_kutta_order))
       THEN tasks' = tasks /\ phase' = "atomic"
       ELSE /\ tasks' = Append(tasks, NewTasks(state', s0,
                                   RKProgram(hydro.runge_kutta_order)[rkpos + 1].op))
            /\ phase' = StartPhase(state', RKProgram(hydro.runge_kutta_order)[rkpos + 1].op)

\* advance_rk: `join_all(new_state_vec).await` returns and the new state is
\* collected
TJoin ==
    /\ pc = "rk" /\ phase = "join"
    /\ JoinReady(tasks[rkpos])
    /\ IF \E i \in DOMAIN tasks[rkpos].upd : tasks[rkpos].upd[i].st = "panicked"
       THEN pc' = "panic" /\ UNCHANGED <<state, foldLeft, rkpos, taskVars>>
       ELSE state' = AdvanceRk(state, RInt(dt)) /\ TRkNext
    /\ UNCHANGED <<call, config, ret, mesh, hydro, control, model, geometry, dt, s0, entry, recon, workers>>

\* weighted_average: join_all polls the futures of s_avg for the first time,
\* each of which spawns its task
TSpawnAvg ==
    /\ pc = "rk" /\ phase = "avg_spawn"
    /\ \E i \in DOMAIN tasks[rkpos].avg :
          /\ tasks[rkpos].avg[i] = "unspawned"
          /\ tasks' = [tasks EXCEPT ![rkpos].avg[i] = "queued"]
          /\ phase' = IF \A j \in DOMAIN tasks[rkpos].avg \ {i} :
                            tasks[rkpos].avg[j] # "unspawned"
                      THEN "avg_join" ELSE "avg_spawn"
    /\ UNCHANGED <<call, config, ret, mesh, hydro, control, model, state, geometry, pc, foldLeft, dt, s0, rkpos,
                   entry, recon, workers>>

\* a worker runs the weighted average of one block
TAvgRun ==
    /\ Running < workers
    /\ \E p \in DOMAIN tasks : \E i \in DOMAIN tasks[p].avg :
          /\ tasks[p].avg[i] = "queued"
          /\ tasks' = [tasks EXCEPT ![p].avg[i] = "done"]
    /\ UNCHANGED <<call, config, ret, mesh, hydro, control, model, state, geometry, pc, foldLeft, dt, s0, rkpos,
                   entry, recon, phase, workers>>

\* weighted_average: `join_all(s_avg).await` returns and the averaged state is
\* collected
TAvgJoin ==
    /\ pc = "rk" /\ phase = "avg_join"
    /\ JoinReady(tasks[rkpos])
    /\ IF AverageLookupsHit(state, s0)
       THEN /\ state' = StateWeightedAverage(state, RKProgram(hydro.runge_kutta_order)[rkpos].b, s0)
            /\ TRkNext
       ELSE pc' = "panic" /\ UNCHANGED <<state, foldLeft, rkpos, taskVars>>
    /\ UNCHANGED <<call, config, ret, mesh, hydro, control, model, geometry, dt, s0, entry, recon, workers>>

NextTasks ==
    \/ TAdvance \/ Reconcile \/ TTimeStep
    \/ TSpawnStage \/ TSpawnInnerBoundary \/ TSpawnOuterBoundary \/ TSpawnUpdate
    \/ TStageRun \/ TStageDone \/ TUpdateAwait \/ TJoin
    \/ TSpawnAvg \/ TAvgRun \/ TAvgJoin
    \/ Return

SpecTasks == InitTasks /\ [][NextTasks]_vars

\* The same tasks under a fair scheduler: the runtime lets a task that can run
\* run, and the driver thread goes on when it can.  The fairness of TAvgJoin
\* is written with its enabling condition, AvgJoinReady.
NextTasksButAvgJoin ==
    \/ TAdvance \/ Reconcile \/ TTimeStep
    \/ TSpawnStage \/ TSpawnInnerBoundary \/ TSpawnOuterBoundary \/ TSpawnUpdate
    \/ TStageRun \/ TStageDone \/ TUpdateAwait \/ TJoin
    \/ TSpawnAvg \/ TAvgRun
    \/ Return

AvgJoinReady == pc = "rk" /\ phase = "avg_join" /\ JoinReady(tasks[rkpos])

FairAvgJoin ==
    \/ []<>(~AvgJoinReady)
    \/ []<><<AvgJoinReady /\ <<pc, rkpos>>' # <<pc, rkpos>>>>_vars

SpecTasksFair ==
    InitTasks /\ [][NextTasks]_vars /\ WF_vars(NextTasksButAvgJoin) /\ FairAvgJoin

(***************************************************************************)
(* The cell data of one advance_rk call.  Arrays (ndarray) are sequences   *)
(* of rows, a row is a sequence of rationals; the radial axis is axis 0.   *)
(***************************************************************************)
MaxSeed == 3
MaxConsBlocks == 2
MinPolarZones == 16          \* Mesh::validate: num_polar_zones is 1 or >= 16

Zero == RInt(0)
Half == Rat(1, 2)
RDiv(a, b) ==
    IF b.n = 1 /\ b.d = 1 THEN a ELSE Rat(a.n * b.d, a.d * b.n)
RNeg(a) == [n |-> -a.n, d |-> a.d]
RAbs(a) == [n |-> Abs(a.n), d |-> a.d]
RMin(a, b) == IF RLt(b, a) THEN b ELSE a
RSign(a) == IF a.n > 0 THEN 1 ELSE IF a.n < 0 THEN -1 ELSE 0
RPow(a, e) ==
    IF a.d = 1 /\ e >= 0 THEN RInt(Pow(a.n, e))
    ELSE IF e >= 0 THEN Rat(Pow(a.n, e), Pow(a.d, e)) ELSE Rat(Pow(a.d, -e), Pow(a.n, -e))

\* an owned array: its elements are computed once, when it is made
Array(a) == IF a = a THEN a ELSE << >>

\* the operands x of an expression e are computed before the expression
Eager(x, e) == IF x = x THEN e ELSE x

\* elementwise arithmetic of two arrays of one shape
ArrayAdd(a, b) ==
    Eager(<<a, b>>, Array([r \in 1..Len(a) |-> [c \in 1..Len(a[r]) |-> RAdd(a[r][c], b[r][c])]]))
ArrayMul(a, b) ==
    Eager(<<a, b>>, Array([r \in 1..Len(a) |-> [c \in 1..Len(a[r]) |-> RMul(a[r][c], b[r][c])]]))
ArrayDiv(a, b) ==
    Eager(<<a, b>>, Array([r \in 1..Len(a) |-> [c \in 1..Len(a[r]) |-> RDiv(a[r][c], b[r][c])]]))

\* `mapv(|(f, _)| f)` and `mapv(|(_, g)| g)`: one component of an array of pairs
Component(a, k) == Array([r \in 1..Len(a) |-> [c \in 1..Len(a[r]) |-> a[r][c][k]]])
Rows(a, lo, hi) == SubSeq(a, lo, hi)
Cols(a, lo, hi) == Array([r \in 1..Len(a) |-> SubSeq(a[r], lo, hi)])

ZeroRow(n) == [c \in 1..n |-> Zero]

\* ndarray_ops::extend_default_2d: pad with default (zero) elements
ExtendDefault2d(a, l0, u0, l1, u1) ==
    LET w == (IF Len(a) = 0 THEN 0 ELSE Len(a[1])) + l1 + u1
    IN  Array([r \in 1..l0 |-> ZeroRow(w)]
              \o [r \in 1..Len(a) |-> ZeroRow(l1) \o a[r] \o ZeroRow(u1)]
              \o [r \in 1..u0 |-> ZeroRow(w)])

RECURSIVE SumRow(_)
SumRow(row) ==
    IF Len(row) = 0 THEN Zero
    ELSE IF Len(row) = 1 THEN row[1]
    ELSE RAdd(SumRow(SubSeq(row, 1, Len(row) \div 2)),
              SumRow(SubSeq(row, (Len(row) \div 2) + 1, Len(row))))

RECURSIVE SumArray(_)
SumArray(a) == IF a = << >> THEN Zero ELSE RAdd(SumRow(a[1]), SumArray(Tail(a)))

\* ---- geometry of a block (SphericalPolarGrid::geometry) ----
\* pi, sin, cos and the roots of the growth factor are irrational; the model
\* takes pi = 3, sin as the tent function between the poles, arcs for
\* chords, and interpolates the vertices inside a block linearly.
PI == RInt(3)
SinPI == Rat(1, 16)          \* in f64 sin(PI) is small and positive, not 0

NumZonesR(m) == m.block_size
NumZonesQ(m) == m.num_polar_zones
Growth(m) == Rat(GrowthNum(m), GrowthDen(m))

\* the radius of radial vertex i (0-based) of a block
VertexRadius(m, index, i) ==
    RMul(RMul(RInt(m.reference_radius), RPow(Growth(m), index[1])),
         RAdd(RInt(1), RMul(RSub(Growth(m), RInt(1)), Rat(i, NumZonesR(m)))))

\* the polar extent of a block, d theta of a zone
ThetaStep(m) ==
    IF m.num_polar_zones = 1
    THEN Rat(2, m.num_radial_zones[1])
    ELSE RDiv(PI, RInt(m.num_polar_zones))

\* sin(theta) at polar vertex j (0-based)
SinTheta(m, j) ==
    IF m.num_polar_zones = 1 THEN RInt(1)
    ELSE IF j = m.num_polar_zones THEN SinPI
    ELSE IF 2 * j <= m.num_polar_zones THEN Rat(2 * j, m.num_polar_zones)
    ELSE Rat(2 * (m.num_polar_zones - j), m.num_polar_zones)

\* cell_volume of zone (i, j), 0-based
\* cell_volume: 2 pi (r1^3 - r0^3) / 3 * dcost
ShellVolume(r0, r1, dcost) ==
    Eager(<<r0, r1, dcost>>,
          RMul(RMul(RMul(RInt(2), PI), RDiv(RSub(RPow(r1, 3), RPow(r0, 3)), RInt(3))), dcost))
CellVolume(m, index, i, j) ==
    ShellVolume(VertexRadius(m, index, i), VertexRadius(m, index, i + 1),
                RMul(RMul(RAdd(SinTheta(m, j), SinTheta(m, j + 1)), Half), ThetaStep(m)))

\* face_area_r of zone (i, j): the area of its inner radial surface
FaceAreaR(m, index, i, j) ==
    LET r == VertexRadius(m, index, i)
    IN  RMul(RMul(PI, RMul(r, RAdd(SinTheta(m, j), SinTheta(m, j + 1)))), RMul(r, ThetaStep(m)))

\* face_area_q of zone (i, j): the area of its lower theta surface
FaceAreaQ(m, index, i, j) ==
    LET r0 == VertexRadius(m, index, i)
        r1 == VertexRadius(m, index, i + 1)
    IN  RMul(RMul(PI, RMul(RAdd(r0, r1), SinTheta(m, j))), RSub(r1, r0))

\* centroid of zone (i, j): the radius (the mean of the two radii) and the
\* polar zone
Centroid(m, index, i, j) ==
    [r |-> RMul(RAdd(VertexRadius(m, index, i), VertexRadius(m, index, i + 1)), Half), q |-> j]

CellVolumes(m, index) ==
    Array([r \in 1..NumZonesR(m) |->
              [c \in 1..NumZonesQ(m) |-> CellVolume(m, index, r - 1, c - 1)]])
CellCenters(m, index) ==
    Array([r \in 1..NumZonesR(m) |->
              [c \in 1..NumZonesQ(m) |-> Centroid(m, index, r - 1, c - 1)]])
RadialFaceAreas(m, index) ==
    Array([r \in 1..(NumZonesR(m) + 1) |->
              [c \in 1..NumZonesQ(m) |-> FaceAreaR(m, index, r - 1, c - 1)]])
PolarFaceAreas(m, index) ==
    Array([r \in 1..NumZonesR(m) |->
              [c \in 1..(NumZonesQ(m) + 1) |-> FaceAreaQ(m, index, r - 1, c - 1)]])

\* ---- a hydrodynamics back-end and an initial model ----
\* The back-ends (hydro_euler, hydro_srhd) and the initial models are taken
\* as a one-component system with linear fluxes: conserved = 2 * primitive,
\* a Riemann solver of HLLE form with wave speeds -1 and +1 that moves the
\* scalar with the upwind concentration, and the PLM gradient of
\* godunov_core::piecewise_linear.
ToConserved(p) == RMul(RInt(2), p)
ToPrimitive(u) == RMul(Half, u)
LabFrameMass(u) == u
LorentzFactor(p) == RInt(1)

PlmGradient(theta, a, b, c) ==
    LET x == RMul(RInt(theta), RSub(b, a))
        y == RMul(Half, RSub(c, a))
        z == RMul(RInt(theta), RSub(c, b))
    IN  IF RSign(x) = RSign(y) /\ RSign(y) = RSign(z) /\ RSign(x) # 0
        THEN RMul(RInt(RSign(x)), RMin(RAbs(x), RMin(RAbs(y), RAbs(z))))
        ELSE Zero

\* `ndarray_ops::map_stencil3(&a, Axis(axis), |a, b, c| hydro.plm_gradient_..(a, b, c))`:
\* the gradient of every cell that has both neighbours along the axis
PlmGradients(h, a, axis) ==
    Array(IF axis = 0
          THEN [r \in 1..(Len(a) - 2) |-> [c \in 1..Len(a[r]) |->
                   PlmGradient(h.plm_theta, a[r][c], a[r + 1][c], a[r + 2][c])]]
          ELSE [r \in 1..Len(a) |-> [c \in 1..(Len(a[r]) - 2) |->
                   PlmGradient(h.plm_theta, a[r][c], a[r][c + 1], a[r][c + 2])]])

PhysicalFlux(p, direction) ==
    IF direction = "Radial" THEN RMul(RInt(3), p) ELSE RNeg(p)

IntercellFlux(pl, pr, sl, sr, direction) ==
    LET f == RMul(Half, RSub(RAdd(PhysicalFlux(pl, direction), PhysicalFlux(pr, direction)),
                             RSub(ToConserved(pr), ToConserved(pl))))
    IN  <<f, IF f.n >= 0 THEN RMul(f, sl) ELSE RMul(f, sr)>>

GeometricalSourceTerms(h, p, c) ==
    IF h.geometric_source THEN RDiv(p, c.r) ELSE Zero

\* the external gravity of a back-end: zero for the Newtonian one, the field
\* of the galactic model times the enthalpy density for the relativistic one
GravitationalSourceTerms(h, p, c) ==
    IF h.backend = "relativistic" THEN RNeg(RDiv(p, c.r)) ELSE Zero

PrimitiveAt(mdl, c, time) ==
    RInt(((mdl.seed * (c.r.n + 1) + (mdl.seed + 1) * c.q + c.r.d) % 5) + 1)

ScalarAt(mdl, c, time) ==
    RInt((mdl.seed + c.r.n + c.q) % 3)

\* `geometry.cell_centers.mapv(|c| model.scalar_at(c, time))` and
\* `geometry.cell_centers.mapv(|c| model.primitive_at(c, time))`
ModelScalar(mdl, centers, time) ==
    Array([r \in 1..Len(centers) |-> [c \in 1..Len(centers[r]) |->
              ScalarAt(mdl, centers[r][c], time)]])
ModelPrimitive(mdl, centers, time) ==
    Array([r \in 1..Len(centers) |-> [c \in 1..Len(centers[r]) |->
              PrimitiveAt(mdl, centers[r][c], time)]])

\* `primitive.mapv(|p| hydro.to_conserved(p)) * &geometry.cell_volumes`
ModelConserved(primitive, cell_volumes) ==
    Eager(primitive,
          ArrayMul([r \in 1..Len(primitive) |-> [c \in 1..Len(primitive[r]) |->
                       ToConserved(primitive[r][c])]],
                   cell_volumes))

\* `conserved.mapv(|u| u.lab_frame_mass()) * scalar`
ModelScalarMass(conserved, scalar) ==
    ArrayMul([r \in 1..Len(conserved) |-> [c \in 1..Len(conserved[r]) |->
                 LabFrameMass(conserved[r][c])]],
             scalar)

\* the block made of the two arrays
BlockStateOf(conserved, scalar) ==
    [conserved |-> conserved, scalar_mass |-> ModelScalarMass(conserved, scalar)]

\* BlockState::from_model
BlockStateFromModel(mdl, m, index, time) ==
    BlockStateOf(ModelConserved(ModelPrimitive(mdl, CellCenters(m, index), time),
                                CellVolumes(m, index)),
                 ModelScalar(mdl, CellCenters(m, index), time))

\* State::from_model with the cell data
StateFromModelCells(mdl, m, geo, time) ==
    [time      |-> time,
     iteration |-> Rat(0, 1),
     solution  |-> [i \in geo |-> BlockStateFromModel(mdl, m, i, time)]]

\* `(state.conserved / &geometry.cell_volumes).mapv(|q| hydro.to_primitive(q))`
StagePrimitive(conserved, cell_volumes) ==
    Eager(<<conserved, cell_volumes>>,
    Array([r \in 1..Len(conserved) |-> [c \in 1..Len(conserved[r]) |->
              ToPrimitive(RDiv(conserved[r][c], cell_volumes[r][c]))]]))

\* `state.scalar_mass / &geometry.cell_volumes / p.map(P::lorentz_factor)`
StageScalar(scalar_mass, cell_volumes, p) ==
    ArrayDiv(ArrayDiv(scalar_mass, cell_volumes),
             [r \in 1..Len(p) |-> [c \in 1..Len(p[r]) |-> LorentzFactor(p[r][c])]])

\* the pair `(p.to_shared(), s.to_shared())`
StagePair(scalar_mass, cell_volumes, p) ==
    [p |-> p, s |-> StageScalar(scalar_mass, cell_volumes, p)]

\* advance_rk, the staging task of one block: `stage`
StagePrimitiveAndScalar(block, m, index) ==
    Eager(block,
          StagePair(block.scalar_mass, CellVolumes(m, index),
                    StagePrimitive(block.conserved, CellVolumes(m, index))))

\* advance_rk: stage_map, the staged blocks of the solution and of the two
\* boundary blocks built from the model; every entry is a shared future, its
\* output computed once
StageMap(mdl, m, st) ==
    Array([k \in StageMapKeys(st) |->
              IF k \in DOMAIN st.solution
              THEN StagePrimitiveAndScalar(st.solution[k], m, k)
              ELSE StagePrimitiveAndScalar(BlockStateFromModel(mdl, m, k, st.time), m, k)])

\* advance_rk: `concatenate(Axis(0), &[pl.slice(s![-2.., ..]), p0.view(),
\* pr.slice(s![..2, ..])])`
GhostAssembly(al, a0, ar) ==
    Rows(al, Len(al) - 1, Len(al)) \o a0 \o Rows(ar, 1, 2)

\* the Godunov fluxes of the faces between the cells of xl and of xr
GodunovFluxes(h, xl, gl, xr, gr, yl, hl, yr, hr, direction) ==
    Eager(<<xl, gl, xr, gr, yl, hl, yr, hr>>,
    Array([r \in 1..Len(xl) |-> [c \in 1..Len(xl[r]) |->
        IntercellFlux(RAdd(xl[r][c], RMul(gl[r][c], Half)), RSub(xr[r][c], RMul(gr[r][c], Half)),
                      RAdd(yl[r][c], RMul(hl[r][c], Half)), RSub(yr[r][c], RMul(hr[r][c], Half)),
                      direction)]]))

\* advance_rk: godunov_x, from the extended arrays and their radial gradients
RadialGodunov(h, pe, se, gx, hx) ==
    GodunovFluxes(h,
        Rows(pe, 2, Len(pe) - 2), Rows(gx, 1, Len(gx) - 1),
        Rows(pe, 3, Len(pe) - 1), Rows(gx, 2, Len(gx)),
        Rows(se, 2, Len(se) - 2), Rows(hx, 1, Len(hx) - 1),
        Rows(se, 3, Len(se) - 1), Rows(hx, 2, Len(hx)), "Radial")

\* advance_rk: godunov_y, from the extended arrays and their polar gradients
\* (padded by one column on either side)
PolarGodunov(h, nq, pe, se, gy, hy) ==
    GodunovFluxes(h,
        Cols(Rows(pe, 3, Len(pe) - 2), 1, nq - 1), Cols(Rows(gy, 3, Len(gy) - 2), 1, nq - 1),
        Cols(Rows(pe, 3, Len(pe) - 2), 2, nq),     Cols(Rows(gy, 3, Len(gy) - 2), 2, nq),
        Cols(Rows(se, 3, Len(se) - 2), 1, nq - 1), Cols(Rows(hy, 3, Len(hy) - 2), 1, nq - 1),
        Cols(Rows(se, 3, Len(se) - 2), 2, nq),     Cols(Rows(hy, 3, Len(hy) - 2), 2, nq), "Polar")

DeltaConserved_FluxSum(one_dimensional, sc, fx, fy, step) ==
    Array([r \in 1..Len(sc) |-> [c \in 1..Len(sc[r]) |->
        IF one_dimensional
        THEN RMul(RSub(sc[r][c], RAdd(fx[r + 1][c], fx[r][c])), step)
        ELSE RMul(RSub(RSub(sc[r][c], RAdd(fx[r + 1][c], fx[r][c])),
                       RSub(fy[r][c + 1], fy[r][c])), step)]])

\* advance_rk: du and ds
DeltaConserved(one_dimensional, sc, fx, fy, step) ==
    Eager(<<sc, fx, fy>>,
    Array([r \in 1..Len(sc) |-> [c \in 1..Len(sc[r]) |->
        IF one_dimensional
        THEN RMul(RSub(sc[r][c], RSub(fx[r + 1][c], fx[r][c])), step)
        ELSE RMul(RSub(RSub(sc[r][c], RSub(fx[r + 1][c], fx[r][c])),
                       RSub(fy[r][c + 1], fy[r][c])), step)]]))
DeltaScalar(one_dimensional, gx, gy, step) ==
    Eager(<<gx, gy>>,
    Array([r \in 1..(Len(gx) - 1) |-> [c \in 1..Len(gx[r]) |->
        IF one_dimensional
        THEN RMul(RSub(gx[r + 1][c], gx[r][c]), RNeg(step))
        ELSE RMul(RAdd(RSub(gx[r + 1][c], gx[r][c]),
                       RSub(gy[r][c + 1], gy[r][c])), RNeg(step))]]))

\* advance_rk: new_state, with the fluxes of the task
UpdateBlock(one_dimensional, blk, sc, fx, gx, fy, gy, step) ==
    [fx |-> fx, gx |-> gx, fy |-> fy, gy |-> gy,
     new_state |-> [conserved   |-> ArrayAdd(blk.conserved,
                                             DeltaConserved(one_dimensional, sc, fx, fy, step)),
                    scalar_mass |-> ArrayAdd(blk.scalar_mass,
                                             DeltaScalar(one_dimensional, gx, gy, step))]]

\* advance_rk: sc and the fluxes through the faces of the block,
\* `godunov.mapv(..) * &geometry.radial_face_areas` and
\* `extend_default_2d(godunov.mapv(..), 0, 0, 1, 1) * &geometry.polar_face_areas`,
\* then the new block
UpdateFromFluxes(h, m, blk, index, p0, godunov_x, godunov_y, step) ==
    UpdateBlock(m.num_polar_zones = 1, blk,
        ArrayMul([r \in 1..NumZonesR(m) |-> [c \in 1..NumZonesQ(m) |->
                     GeometricalSourceTerms(h, p0[r][c], Centroid(m, index, r - 1, c - 1))]],
                 CellVolumes(m, index)),
        ArrayMul(Component(godunov_x, 1), RadialFaceAreas(m, index)),
        ArrayMul(Component(godunov_x, 2), RadialFaceAreas(m, index)),
        IF m.num_polar_zones = 1 THEN << >>
        ELSE ArrayMul(ExtendDefault2d(Component(godunov_y, 1), 0, 0, 1, 1),
                      PolarFaceAreas(m, index)),
        IF m.num_polar_zones = 1 THEN << >>
        ELSE ArrayMul(ExtendDefault2d(Component(godunov_y, 2), 0, 0, 1, 1),
                      PolarFaceAreas(m, index)),
        step)

\* advance_rk: the gradients and the Godunov fluxes of the extended arrays
UpdateFromExtended(h, m, blk, index, p0, pe, se, step) ==
    UpdateFromFluxes(h, m, blk, index, p0,
        RadialGodunov(h, pe, se, PlmGradients(h, pe, 0), PlmGradients(h, se, 0)),
        IF m.num_polar_zones = 1 THEN << >>
        ELSE PolarGodunov(h, NumZonesQ(m), pe, se,
                          ExtendDefault2d(PlmGradients(h, pe, 1), 0, 0, 1, 1),
                          ExtendDefault2d(PlmGradients(h, se, 1), 0, 0, 1, 1)),
        step)

\* advance_rk, the update task of block `index` (`entry`): its fluxes and the
\* block it returns
UpdateTask(h, m, st, stage_map, index, step) ==
    UpdateFromExtended(h, m, st.solution[index], index,
        stage_map[Stencil(index)[2]].p,
        GhostAssembly(stage_map[Stencil(index)[1]].p, stage_map[Stencil(index)[2]].p,
                      stage_map[Stencil(index)[3]].p),
        GhostAssembly(stage_map[Stencil(index)[1]].s, stage_map[Stencil(index)[2]].s,
                      stage_map[Stencil(index)[3]].s),
        step)

\* advance_rk: the update tasks of the blocks of the solution
UpdateTasks(h, m, st, stage_map, step) ==
    Eager(stage_map,
          [index \in UpdateTaskKeys(st) |-> UpdateTask(h, m, st, stage_map, index, step)])

\* the one- and two-dimensional static meshes of 1..MaxConsBlocks blocks
ConsMeshes ==
    {[reference_radius |-> 1, inner_radius |-> 0, outer_radius |-> Pow(2, n),
      inner_excision_speed |-> 0, outer_excision_speed |-> 0,
      excision_delay |-> None, num_radial_zones |-> Some(2),
      num_polar_zones |-> nq, block_size |-> 2] : n \in 1..MaxConsBlocks, nq \in {1, MinPolarZones}}

InitCons ==
    /\ mesh \in {m \in ConsMeshes : MeshValidate(m, StartTime)}
    /\ hydro \in [runge_kutta_order : {"RK1"}, plm_theta : {1, 2}, geometric_source : BOOLEAN,
                  backend : {"newtonian", "relativistic"}]
    /\ control = [fold |-> 1]
    /\ model \in [seed : 0..MaxSeed]
    /\ geometry = GridBlocks(mesh, StartTime)
    /\ state = StateFromModelCells(model, mesh, geometry, StartTime)
    /\ pc = "rk"
    /\ foldLeft = 1
    /\ dt \in {1, 2}
    /\ s0 = state
    /\ rkpos = 1
    /\ entry = [state |-> state, calls |-> 1]
    /\ recon = NoRecon
    /\ tasks = << >>
    /\ phase = "atomic"
    /\ workers = 0
    /\ call = None
    /\ config = None
    /\ ret = None

\* one advance_rk call on the cell data: every update task runs and the new
\* state is collected
AdvanceRkCells ==
    /\ pc = "rk" /\ rkpos = 1
    /\ tasks' = UpdateTasks(hydro, mesh, state, StageMap(model, mesh, state), RInt(dt))
    /\ state' = [time      |-> RAdd(state.time, RInt(dt)),
                 iteration |-> AdvanceRkIteration(state.iteration),
                 solution  |-> [index \in DOMAIN tasks' |-> tasks'[index].new_state]]
    /\ pc' = "top"
    /\ rkpos' = 0
    /\ foldLeft' = foldLeft - 1
    /\ UNCHANGED <<call, config, ret, mesh, hydro, control, model, geometry, dt, s0, entry, recon, phase, workers>>

NextCons == AdvanceRkCells

SpecCons == InitCons /\ [][NextCons]_vars

(***************************************************************************)
(* The time step and the errors of the primitive recovery.  A conserved    *)
(* state carries its lab-frame (mass) density, its energy density and the  *)
(* outcome `recovered` of the root finder of hydro_srhd on it.             *)
(***************************************************************************)
LightSpeed == 3              \* LIGHT_SPEED, in units of 1e10 cm/s

\* HydroErrorType::at_position
AtPosition(source, position) == [source |-> source, position |-> position]

\* NewtonianHydro::try_to_primitive
NewtonianTryToPrimitive(u) ==
    IF RLt(u.density, Zero)
    THEN Err([type |-> "NegativeDensity", value |-> u.density])
    ELSE Ok([mass_density |-> u.density, healed |-> FALSE])

\* the gas pressure of the primitive that hydro_srhd recovers: negative in a
\* RecoveredPrimitive::NegativePressure, positive in a Success
RecoveredPressure(u) ==
    IF u.recovered = "NegativePressure" THEN RInt(-1) ELSE RInt(1)

\* `Primitive(p.0, p.1, p.2, 1e-3 * p.0)` for a NegativePressure, p otherwise
ValidPrimitive(u) ==
    [mass_density |-> u.density,
     gas_pressure |-> IF u.recovered = "NegativePressure"
                      THEN RMul(Rat(1, 1000), u.density) ELSE RecoveredPressure(u),
     healed       |-> u.recovered = "NegativePressure"]

RelativisticTryToPrimitive_NoEnergyCheck(u) ==
    IF RLt(u.density, Zero)
    THEN Err([type |-> "NegativeDensity", value |-> u.density])
    ELSE IF u.recovered = "RootFinderFailed"
    THEN Err([type |-> "RootFinderFailed", value |-> u.density])
    ELSE Ok(ValidPrimitive(u))

RelativisticTryToPrimitive_EnergyFirst(u) ==
    IF RLt(u.energy, Zero)
    THEN Err([type |-> "NegativeEnergyDensity", value |-> u.energy])
    ELSE IF RLt(u.density, Zero)
    THEN Err([type |-> "NegativeDensity", value |-> u.density])
    ELSE IF u.recovered = "RootFinderFailed"
    THEN Err([type |-> "RootFinderFailed", value |-> u.density])
    ELSE Ok(ValidPrimitive(u))

\* RelativisticHydro::try_to_primitive
RelativisticTryToPrimitive(u) ==
    IF RLt(u.density, Zero)
    THEN Err([type |-> "NegativeDensity", value |-> u.density])
    ELSE IF RLt(u.energy, Zero)
    THEN Err([type |-> "NegativeEnergyDensity", value |-> u.energy])
    ELSE IF u.recovered = "RootFinderFailed"
    THEN Err([type |-> "RootFinderFailed", value |-> u.density])
    ELSE Ok(ValidPrimitive(u))

TryToPrimitive(h, u) ==
    IF h.backend = "Relativistic" THEN RelativisticTryToPrimitive(u)
    ELSE NewtonianTryToPrimitive(u)

\* max_signal_speed of a primitive state
MaxSignalSpeed(h, p) ==
    IF h.backend = "Relativistic" THEN RInt(LightSpeed) ELSE RInt(1)

\* global_signal_speed
GlobalSignalSpeed(h) ==
    IF h.backend = "Relativistic" /\ ~h.adaptive_time_step
    THEN Some(RInt(LightSpeed)) ELSE None

CellOrder_ColumnMajor(m) ==
    [k \in 1..(NumZonesR(m) * NumZonesQ(m)) |->
        <<((k - 1) % NumZonesR(m)) + 1, ((k - 1) \div NumZonesR(m)) + 1>>]

\* the cells of a block in the row-major order of ndarray's iter()
CellOrder(m) ==
    [k \in 1..(NumZonesR(m) * NumZonesQ(m)) |->
        <<((k - 1) \div NumZonesQ(m)) + 1, ((k - 1) % NumZonesQ(m)) + 1>>]

\* u = conserved / cell_volumes, for one cell
PerVolume(block, m, index, rc) ==
    LET dv == CellVolume(m, index, rc[1] - 1, rc[2] - 1)
    IN  [density   |-> RDiv(block[rc[1]][rc[2]].density, dv),
         energy    |-> RDiv(block[rc[1]][rc[2]].energy, dv),
         recovered |-> block[rc[1]][rc[2]].recovered]

\* `(self.conserved / cell_volumes).iter().map(|u| hydro.try_to_primitive(u))`:
\* the outcome of every cell, in the order of iter()
ConvertCells(block, h, m, index) ==
    Array([k \in DOMAIN CellOrder(m) |->
              TryToPrimitive(h, PerVolume(block, m, index, CellOrder(m)[k]))])

\* the position in CellOrder of the first cell whose conversion fails
FirstErrorAt(x) ==
    SetMin({k \in DOMAIN x : ~x[k].ok})

\* the primitives of the outcomes, or the error of the first cell that fails
\* with the centre of the cell attached
CollectCells(m, index, x) ==
    IF \A k \in DOMAIN x : x[k].ok
    THEN Ok([k \in DOMAIN x |-> x[k].value])
    ELSE Err(AtPosition(x[FirstErrorAt(x)].error,
                        Centroid(m, index, CellOrder(m)[FirstErrorAt(x)][1] - 1,
                                           CellOrder(m)[FirstErrorAt(x)][2] - 1)))

\* ArrayBase::dim of a two-dimensional array
Dim(a) == <<Len(a), IF Len(a) = 0 THEN 0 ELSE Len(a[1])>>

\* Array::from_shape_vec: the vector laid out in rows, or a shape error
FromShapeVec(dim, v) ==
    IF Len(v) = dim[1] * dim[2]
    THEN Ok(Array([r \in 1..dim[1] |-> [c \in 1..dim[2] |-> v[(r - 1) * dim[2] + c]]]))
    ELSE Err("ShapeError")

\* the outcome of a call that panics
Panic == [panic |-> TRUE]

\* `Ok(r.unwrap())`: unwrap panics on an error
OkUnwrap(r) == IF r.ok THEN Ok(r.value) ELSE Panic

\* `Ok(Array::from_shape_vec(u.dim(), x?).unwrap())`
ShapedCells(dim, x) ==
    IF x.ok THEN OkUnwrap(FromShapeVec(dim, x.value)) ELSE x

\* BlockState::try_to_primitive: the primitives, or the error of the first
\* cell that fails with the centre of that cell attached
BlockTryToPrimitive(block, h, m, index) ==
    ShapedCells(Dim(block),
                CollectCells(m, index, ConvertCells(block, h, m, index)))

\* GridGeometry::cell_linear_dimension of one cell
CellLinearDimension(m, index, rc) ==
    RMin(RSub(VertexRadius(m, index, rc[1]), VertexRadius(m, index, rc[1] - 1)),
         RMul(ThetaStep(m), VertexRadius(m, index, rc[1] - 1)))

\* `cell_linear_dimension / max_signal_speed` of the cells of the blocks
CellTimeSteps(h, m, conv) ==
    UNION {{RDiv(CellLinearDimension(m, i, CellOrder(m)[k]),
                 MaxSignalSpeed(h, conv[i].value[CellOrder(m)[k][1]][CellOrder(m)[k][2]])) :
             k \in DOMAIN CellOrder(m)} :
           i \in DOMAIN conv}

\* the smallest of a set of rationals
MinOf(dts) == CHOOSE x \in dts : \A y \in dts : ~RLt(y, x)

\* the fold over the outcomes of the blocks: the smallest step, or the error
\* of the first failing block in the order of the hash map
FoldTimeStep(h, m, conv) ==
    IF \A i \in DOMAIN conv : conv[i].ok
    THEN {Ok(RMul(MinOf(CellTimeSteps(h, m, conv)), h.cfl_number))}
    ELSE {Err(conv[i].error) : i \in {j \in DOMAIN conv : ~conv[j].ok}}

\* the per-cell reduction of time_step: the try_fold over the blocks of the
\* hash map stops at the first block, in the order of the map, whose
\* conversion fails; the set of the results over the orders
PerCellTimeStep(h, m, st) ==
    FoldTimeStep(h, m, Array([i \in DOMAIN st.solution |->
                                 BlockTryToPrimitive(st.solution[i].conserved, h, m, i)]))

\* Mesh::smallest_spacing
SmallestSpacing(m, index) ==
    RSub(VertexRadius(m, index, 1), VertexRadius(m, index, 0))

\* State::time_step
StateTimeStep(h, m, st) ==
    IF GlobalSignalSpeed(h) # None
    THEN {Ok(RDiv(RMul(h.cfl_number, SmallestSpacing(m, InnerOuterBlockIndexes(st)[1])),
                  GlobalSignalSpeed(h)[1]))}
    ELSE PerCellTimeStep(h, m, st)

\* Hydrodynamics::time_step
HydroTimeStep(h, m, st) == PerCellTimeStep(h, m, st)

\* the conserved states (per unit volume) a cell is seeded with
CellKinds ==
    {[density |-> RInt(1),  energy |-> RInt(1),  recovered |-> "Success"],
     [density |-> RInt(1),  energy |-> RInt(1),  recovered |-> "NegativePressure"],
     [density |-> RInt(1),  energy |-> RInt(1),  recovered |-> "RootFinderFailed"],
     [density |-> RInt(1),  energy |-> RInt(-1), recovered |-> "Success"],
     [density |-> RInt(-1), energy |-> RInt(1),  recovered |-> "Success"],
     [density |-> RInt(-1), energy |-> RInt(-1), recovered |-> "Success"]}

HydroKinds ==
    {[backend |-> "Newtonian", adaptive_time_step |-> FALSE, cfl_number |-> Rat(1, 2),
      runge_kutta_order |-> "RK1"],
     [backend |-> "Relativistic", adaptive_time_step |-> FALSE, cfl_number |-> Rat(1, 2),
      runge_kutta_order |-> "RK1"],
     [backend |-> "Relativistic", adaptive_time_step |-> TRUE, cfl_number |-> Rat(1, 2),
      runge_kutta_order |-> "RK1"]}

\* the conserved array of a block: the seeded states times the cell volumes
SeededBlock(m, index, kinds) ==
    [conserved |->
        [r \in 1..NumZonesR(m) |-> [c \in 1..NumZonesQ(m) |->
            [density   |-> RMul(kinds[r][c].density, CellVolume(m, index, r - 1, c - 1)),
             energy    |-> RMul(kinds[r][c].energy, CellVolume(m, index, r - 1, c - 1)),
             recovered |-> kinds[r][c].recovered]]]]

\* the cells of the grid: block, row and column
SeedCells(m, geo) == geo \X ((1..NumZonesR(m)) \X (1..NumZonesQ(m)))

\* the states of the cells of block `index` when cell c1 is seeded with k1 and
\* cell c2 with k2, every other cell holding a state that converts
Seeded(m, index, c1, k1, c2, k2) ==
    [r \in 1..NumZonesR(m) |-> [c \in 1..NumZonesQ(m) |->
        IF <<index, <<r, c>>>> = c1 THEN k1
        ELSE IF <<index, <<r, c>>>> = c2 THEN k2
        ELSE [density |-> RInt(1), energy |-> RInt(1), recovered |-> "Success"]]]

InitTimeStep ==
    /\ mesh \in {m \in ConsMeshes : MeshValidate(m, StartTime) /\ m.num_polar_zones = 1}
    /\ hydro \in HydroKinds
    /\ control = [fold |-> 1]
    /\ model = [seed |-> 0]
    /\ geometry = GridBlocks(mesh, StartTime)
    /\ \E c1 \in SeedCells(mesh, geometry), c2 \in SeedCells(mesh, geometry) :
       \E k1 \in CellKinds, k2 \in CellKinds :
          state = [time      |-> StartTime,
                   iteration |-> Rat(0, 1),
                   solution  |-> [i \in geometry |->
                                    SeededBlock(mesh, i, Seeded(mesh, i, c1, k1, c2, k2))]]
    /\ pc = "dt"
    /\ foldLeft = 1
    /\ dt = None
    /\ s0 = state
    /\ rkpos = 0
    /\ entry = [state |-> state, calls |-> 1]
    /\ recon = NoRecon
    /\ tasks = << >>
    /\ phase = "atomic"
    /\ workers = 0
    /\ call = None
    /\ config = None
    /\ ret = None

\* `state.time_step(&hydro, &mesh)` is called and returns
CallStateTimeStep ==
    /\ pc = "dt"
    /\ dt' \in StateTimeStep(hydro, mesh, state)
    /\ phase' = "State::time_step"
    /\ pc' = "returned"
    /\ UNCHANGED <<call, config, ret, mesh, hydro, control, model, state, geometry, foldLeft, s0, rkpos, entry,
                   recon, tasks, workers>>

\* `hydro.time_step(&state, mesh)` is called and returns
CallHydroTimeStep ==
    /\ pc = "dt"
    /\ dt' \in HydroTimeStep(hydro, mesh, state)
    /\ phase' = "Hydrodynamics::time_step"
    /\ pc' = "returned"
    /\ UNCHANGED <<call, config, ret, mesh, hydro, control, model, state, geometry, foldLeft, s0, rkpos, entry,
                   recon, tasks, workers>>

NextTimeStep == CallStateTimeStep \/ CallHydroTimeStep

SpecTimeStep == InitTimeStep /\ [][NextTimeStep]_vars

(***************************************************************************)
(* The conversion of conserved to primitive data, called on its own: on a  *)
(* block (BlockState::try_to_primitive) and on the conserved state of one  *)
(* cell (Hydrodynamics::try_to_primitive).                                 *)
(***************************************************************************)
MaxSeedColumn == 2

\* the cells that are seeded and converted one by one: those of the first
\* MaxSeedColumn polar columns
ConvertSeedCells(m, geo) ==
    {cell \in SeedCells(m, geo) : cell[2][2] <= MaxSeedColumn}

\* the one- and two-dimensional static meshes of one block
ConvertMeshes == {m \in ConsMeshes : m.outer_radius = 2}

InitConvert ==
    /\ mesh \in {m \in ConvertMeshes : MeshValidate(m, StartTime)}
    /\ hydro \in {h \in HydroKinds : h.adaptive_time_step = (h.backend = "Relativistic")}
    /\ control = [fold |-> 1]
    /\ model = [seed |-> 0]
    /\ geometry = GridBlocks(mesh, StartTime)
    /\ \E c1 \in ConvertSeedCells(mesh, geometry) :
       \E c2 \in {c \in ConvertSeedCells(mesh, geometry) : c[1] = c1[1]} :
       \E k1 \in CellKinds, k2 \in CellKinds :
          state = [time      |-> StartTime,
                   iteration |-> Rat(0, 1),
                   solution  |-> [i \in geometry |->
                                    SeededBlock(mesh, i, Seeded(mesh, i, c1, k1, c2, k2))]]
    /\ pc = "convert"
    /\ foldLeft = 1
    /\ dt = None
    /\ s0 = state
    /\ rkpos = 0
    /\ entry = [state |-> state, calls |-> 1]
    /\ recon = NoRecon
    /\ tasks = << >>
    /\ phase = "atomic"
    /\ workers = 0
    /\ call = None
    /\ config = None
    /\ ret = None

\* `state.try_to_primitive(&hydro, &geometry)` on one block of the solution
CallBlockTryToPrimitive ==
    /\ pc = "convert"
    /\ \E index \in DOMAIN state.solution :
          /\ call' = [fn |-> "BlockState::try_to_primitive", index |-> index]
          /\ ret' = BlockTryToPrimitive(state.solution[index].conserved, hydro, mesh, index)
    /\ pc' = "converted"
    /\ UNCHANGED <<config, mesh, hydro, control, model, state, geometry, foldLeft, dt, s0,
                   rkpos, entry, recon, tasks, phase, workers>>

\* `hydro.try_to_primitive(u)` on the conserved state per unit volume of a cell
CallTryToPrimitive ==
    /\ pc = "convert"
    /\ \E cell \in ConvertSeedCells(mesh, DOMAIN state.solution) :
          /\ call' = [fn |-> "Hydrodynamics::try_to_primitive",
                      u  |-> PerVolume(state.solution[cell[1]].conserved, mesh, cell[1], cell[2])]
          /\ ret' = TryToPrimitive(hydro, PerVolume(state.solution[cell[1]].conserved, mesh,
                                                    cell[1], cell[2]))
    /\ pc' = "converted"
    /\ UNCHANGED <<config, mesh, hydro, control, model, state, geometry, foldLeft, dt, s0,
                   rkpos, entry, recon, tasks, phase, workers>>

NextConvert == CallBlockTryToPrimitive \/ CallTryToPrimitive

SpecConvert == InitConvert /\ [][NextConvert]_vars

(***************************************************************************)
(* Validation of the configuration: Mesh::validate at control.start_time   *)
(* and the validate of the two hydrodynamics back-ends, each called on a   *)
(* configuration that may break its rules.                                 *)
(***************************************************************************)
MaxValidate == 2

\* the meshes given to validate: radii and speeds in -1..MaxValidate
ValidateMeshSpace ==
    [reference_radius     : -1..MaxValidate,
     inner_radius         : -1..MaxValidate,
     outer_radius         : -1..MaxValidate,
     inner_excision_speed : -1..MaxValidate,
     outer_excision_speed : -1..MaxValidate,
     excision_delay       : {None, Some(-1), Some(0), Some(1)},
     num_radial_zones     : {None, Some(2)},
     num_polar_zones      : {1, MinPolarZones - 1, MinPolarZones},
     block_size           : {1, 2}]

\* the hydrodynamics configurations given to validate: plm_theta below, at the
\* ends of, inside and above [1, 2], cfl_number likewise for [0, 0.7]
ValidateHydroSpace ==
    [backend            : {"Newtonian", "Relativistic"},
     plm_theta          : {Rat(1, 2), RInt(1), Rat(3, 2), RInt(2), Rat(5, 2)},
     cfl_number         : {Rat(-1, 10), Zero, Rat(1, 2), Rat(7, 10), Rat(4, 5)},
     adaptive_time_step : {FALSE},
     runge_kutta_order  : {"RK1"}]

\* NewtonianHydro::validate
NewtonianValidate(h) ==
    IF RLt(h.plm_theta, RInt(1)) \/ RLt(RInt(2), h.plm_theta)
    THEN Err("plm_theta must be in the range [1, 2]")
    ELSE IF RLt(h.cfl_number, Zero) \/ RLt(Rat(7, 10), h.cfl_number)
    THEN Err("cfl_number must be in the range [0.0, 0.7]")
    ELSE Ok("()")

\* RelativisticHydro::validate: the test of cfl_number is commented out
RelativisticValidate(h) ==
    IF RLt(h.plm_theta, RInt(1)) \/ RLt(RInt(2), h.plm_theta)
    THEN Err("plm_theta must be in the range [1, 2]")
    ELSE Ok("()")

\* AgnosticHydro::validate
HydroValidate(h) ==
    IF h.backend = "Newtonian" THEN NewtonianValidate(h) ELSE RelativisticValidate(h)

InitValidate ==
    /\ \/ /\ mesh \in ValidateMeshSpace
          /\ hydro = [backend |-> "Newtonian", plm_theta |-> Rat(3, 2), cfl_number |-> Rat(1, 2),
                      adaptive_time_step |-> FALSE, runge_kutta_order |-> "RK1"]
          /\ control \in [fold : {1}, start_time : {RInt(t) : t \in 0..MaxValidate}]
       \/ /\ mesh = [reference_radius |-> 1, inner_radius |-> 1, outer_radius |-> 2,
                     inner_excision_speed |-> 0, outer_excision_speed |-> 0,
                     excision_delay |-> None, num_radial_zones |-> Some(2),
                     num_polar_zones |-> 1, block_size |-> 2]
          /\ hydro \in ValidateHydroSpace
          /\ control = [fold |-> 1, start_time |-> StartTime]
    /\ model = [seed |-> 0]
    /\ geometry = {}
    /\ state = [time |-> control.start_time, iteration |-> Rat(0, 1), solution |-> << >>]
    /\ pc = "validate"
    /\ foldLeft = 0
    /\ dt = None
    /\ s0 = state
    /\ rkpos = 0
    /\ entry = [state |-> state, calls |-> 0]
    /\ recon = NoRecon
    /\ tasks = << >>
    /\ phase = "atomic"
    /\ workers = 0
    /\ call = None
    /\ config = None
    /\ ret = None

\* `self.mesh.validate(self.control.start_time)`
CallMeshValidate ==
    /\ pc = "validate"
    /\ call' = [fn |-> "Mesh::validate", time |-> control.start_time]
    /\ ret' = MeshValidateResult(mesh, control.start_time)
    /\ pc' = "validated"
    /\ UNCHANGED <<config, mesh, hydro, control, model, state, geometry, foldLeft, dt, s0,
                   rkpos, entry, recon, tasks, phase, workers>>

\* `self.hydro.validate()`
CallHydroValidate ==
    /\ pc = "validate"
    /\ call' = [fn |-> "Hydrodynamics::validate"]
    /\ ret' = HydroValidate(hydro)
    /\ pc' = "validated"
    /\ UNCHANGED <<config, mesh, hydro, control, model, state, geometry, foldLeft, dt, s0,
                   rkpos, entry, recon, tasks, phase, workers>>

NextValidate == CallMeshValidate \/ CallHydroValidate

SpecValidate == InitValidate /\ [][NextValidate]_vars

(***************************************************************************)
(* Start-up (main.rs): App::from_config builds the initial block set with  *)
(* the loop of Mesh::grid_blocks and the initial state, then main calls    *)
(* App::validate, and only then run.  In this part `tasks` holds the       *)
(* counts of the recurring Tasks of main.rs (products and checkpoints).    *)
(***************************************************************************)
MaxStartupRadius == 3
MaxGridIndex == 6        \* the loop of grid_blocks is followed up to this index

StartupMeshSpace ==
    [reference_radius     : {-1, 0, 1},
     inner_radius         : {0},
     outer_radius         : 1..MaxStartupRadius,
     inner_excision_speed : {0},
     outer_excision_speed : {0},
     excision_delay       : {None},
     num_radial_zones     : {Some(2)},
     num_polar_zones      : {1, MinPolarZones - 1},
     block_size           : {0, 1, 2}]

StartupHydroSpace ==
    [backend            : {"Newtonian", "Relativistic"},
     plm_theta          : {Rat(1, 2), Rat(3, 2)},
     cfl_number         : {Rat(1, 2)},
     adaptive_time_step : {FALSE},
     runge_kutta_order  : {"RK1"}]

\* the models of main.rs: shell_velocity is in units of the speed of light
StartupModelSpace ==
    [seed : {0}, kind : {"JetInCloud"}, shell_velocity : {Zero}]
        \cup [seed : {0}, kind : {"HaloKilonova"}, shell_velocity : {Rat(1, 8), Rat(1, 2)}]

StartupControlSpace ==
    [fold : {1}, start_time : {StartTime}, num_threads : {0, 1},
     checkpoint_interval : {1}, products_interval : {-1, 1}]

\* Model::validate: JetInCloud prints and accepts, HaloKilonova rejects a
\* shell faster than 0.25 c
ModelValidate(mdl) ==
    IF mdl.kind = "HaloKilonova" /\ RLt(Rat(1, 4), mdl.shell_velocity)
    THEN Err("The shell is moving faster than 0.25 c")
    ELSE Ok("()")

\* Control::validate
ControlValidate(c) ==
    IF c.num_threads = 0 \/ c.num_threads >= 1024
    THEN Err("num_threads must be > 0 and < 1024")
    ELSE IF c.checkpoint_interval < 0
    THEN Err("checkpoint_interval <= 0.0")
    ELSE IF c.products_interval < 0
    THEN Err("products_interval <= 0.0")
    ELSE Ok("()")

\* Configuration::validate: hydro, model, mesh, control, the first error wins
ConfigurationValidate(h, mdl, m, c) ==
    IF ~HydroValidate(h).ok THEN HydroValidate(h)
    ELSE IF ~ModelValidate(mdl).ok THEN ModelValidate(mdl)
    ELSE IF ~MeshValidateResult(m, c.start_time).ok THEN MeshValidateResult(m, c.start_time)
    ELSE ControlValidate(c)

InitStartup ==
    /\ mesh \in StartupMeshSpace
    /\ hydro \in StartupHydroSpace
    /\ control \in StartupControlSpace
    /\ model \in StartupModelSpace
    /\ geometry = {}
    /\ state = None
    /\ pc = "main"
    /\ foldLeft = 0
    /\ dt = None
    /\ s0 = None
    /\ rkpos = 0
    /\ entry = [state |-> None, calls |-> 0]
    /\ recon = NoRecon
    /\ tasks = [write_products |-> 0, write_checkpoint |-> 0]
    /\ phase = "atomic"
    /\ workers = 0
    /\ call = None
    /\ config = None
    /\ ret = None

\* main calls App::from_config, which enters the loop of Mesh::grid_blocks
FromConfig ==
    /\ pc = "main"
    /\ call' = [fn |-> "Mesh::grid_blocks", i |-> 0]
    /\ pc' = "grid_blocks"
    /\ UNCHANGED <<config, ret, mesh, hydro, control, model, state, geometry, foldLeft, dt, s0, rkpos,
                   entry, recon, tasks, phase, workers>>

\* one pass of `for i in 0..`: the block is inserted; the loop is followed up
\* to MaxGridIndex and goes on beyond it
GridBlocksInsert ==
    /\ pc = "grid_blocks"
    /\ SubgridInnerLt(mesh, <<call.i, 0>>, OuterExcisionSurface(mesh, control.start_time))
    /\ call.i < MaxGridIndex
    /\ geometry' = geometry \cup {<<call.i, 0>>}
    /\ call' = [call EXCEPT !.i = @ + 1]
    /\ UNCHANGED <<config, ret, mesh, hydro, control, model, state, pc, foldLeft, dt, s0, rkpos,
                   entry, recon, tasks, phase, workers>>

\* the pass of the loop that finds inner_radius >= OES and breaks
GridBlocksBreak ==
    /\ pc = "grid_blocks"
    /\ ~SubgridInnerLt(mesh, <<call.i, 0>>, OuterExcisionSurface(mesh, control.start_time))
    /\ call' = [fn |-> "State::from_model"]
    /\ pc' = "from_model"
    /\ UNCHANGED <<config, ret, mesh, hydro, control, model, state, geometry, foldLeft, dt, s0, rkpos,
                   entry, recon, tasks, phase, workers>>

\* State::from_model on the geometry, and the return of App::from_config
FromModel ==
    /\ pc = "from_model"
    /\ state' = StateFromModel(geometry, control.start_time)
    /\ s0' = state'
    /\ call' = [fn |-> "App::from_config"]
    /\ pc' = "validate"
    /\ UNCHANGED <<config, ret, mesh, hydro, control, model, geometry, foldLeft, dt, rkpos,
                   entry, recon, tasks, phase, workers>>

\* `App::from_preset_or_file(&input)?.validate()?`: main returns the error
AppValidate ==
    /\ pc = "validate"
    /\ call' = [fn |-> "App::validate"]
    /\ ret' = ConfigurationValidate(hydro, model, mesh, control)
    /\ pc' = IF ret'.ok THEN "run" ELSE "exit"
    /\ UNCHANGED <<config, mesh, hydro, control, model, state, geometry, foldLeft, dt, s0,
                   rkpos, entry, recon, tasks, phase, workers>>

\* run: the side effects of the first pass (products and checkpoint are due
\* at the start time) and the first call of scheme::advance
Run ==
    /\ pc = "run"
    /\ tasks' = [write_products |-> tasks.write_products + 1,
                 write_checkpoint |-> tasks.write_checkpoint + 1]
    /\ entry' = [state |-> state, calls |-> entry.calls + 1]
    /\ call' = [fn |-> "scheme::advance"]
    /\ pc' = "running"
    /\ UNCHANGED <<config, ret, mesh, hydro, control, model, state, geometry, foldLeft, dt, s0, rkpos,
                   recon, phase, workers>>

NextStartup ==
    FromConfig \/ GridBlocksInsert \/ GridBlocksBreak \/ FromModel \/ AppValidate \/ Run

\* every step of the start-up that can be taken is taken
SpecStartup == InitStartup /\ [][NextStartup]_vars /\ WF_vars(NextStartup)

(***************************************************************************)
(* Patching a configuration (yaml_patch.rs).  A string is a sequence of    *)
(* pieces of text; a serde_yaml Value is null, a number, a string or a     *)
(* mapping from strings to Values.  The patched type is the Config of the  *)
(* tests of yaml_patch.rs: {x: f64, y: usize, inner: {a: String, b:        *)
(* String}}, with or without #[serde(deny_unknown_fields)].                *)
(***************************************************************************)
MaxKeyValLen == 5        \* the longest key=value string, in pieces of text

Null       == [kind |-> "null"]
IntValue(n)   == [kind |-> "int", i |-> n]
FloatValue(q) == [kind |-> "float", f |-> q]
StrValue(t)   == [kind |-> "str", s |-> t]
MapValue(m)   == [kind |-> "map", m |-> m]

\* Value::as_mapping
IsMapping(v) == v.kind = "map"

RECURSIVE MergeValue(_, _)
MergeMapping_OneKey(value_map, patch_map) ==
    [key \in DOMAIN value_map \cup {k \in DOMAIN patch_map :
                                        k = CHOOSE k1 \in DOMAIN patch_map : TRUE} |->
        IF key \in DOMAIN patch_map /\ key = CHOOSE k1 \in DOMAIN patch_map : TRUE
        THEN MergeValue(IF key \in DOMAIN value_map THEN value_map[key] ELSE Null,
                        patch_map[key])
        ELSE value_map[key]]

\* merge_mapping
MergeMapping(value_map, patch_map) ==
    [key \in DOMAIN value_map \cup DOMAIN patch_map |->
        IF key \in DOMAIN patch_map
        THEN MergeValue(IF key \in DOMAIN value_map THEN value_map[key] ELSE Null,
                        patch_map[key])
        ELSE value_map[key]]

MergeValue_Sum(value, patch) ==
    IF IsMapping(value) /\ IsMapping(patch)
    THEN MapValue(MergeMapping(value.m, patch.m))
    ELSE IF value.kind = "int" /\ patch.kind = "int"
    THEN IntValue(value.i + patch.i)
    ELSE patch

\* merge_value
MergeValue(value, patch) ==
    IF IsMapping(value) /\ IsMapping(patch)
    THEN MapValue(MergeMapping(value.m, patch.m))
    ELSE patch

\* single_item_mapping
SingleItemMapping(val, key) == [k \in {key} |-> val]

\* the names of the fields of Config and of Inner
ConfigFields == {<<"x">>, <<"y">>, <<"inner">>}
InnerFields  == {<<"a">>, <<"b">>}

\* to_value(self.clone()) for a Config
ToValue(c) ==
    MapValue([key \in ConfigFields |->
        IF key = <<"x">> THEN FloatValue(c.x)
        ELSE IF key = <<"y">> THEN IntValue(c.y)
        ELSE MapValue([k \in InnerFields |->
                          IF k = <<"a">> THEN StrValue(c.inner.a) ELSE StrValue(c.inner.b)])])

\* from_value for Inner: both fields are there and are strings
InnerFromValue(v, deny) ==
    IF ~IsMapping(v) THEN Err("invalid type")
    ELSE IF ~(InnerFields \subseteq DOMAIN v.m) THEN Err("missing field")
    ELSE IF deny /\ ~(DOMAIN v.m \subseteq InnerFields) THEN Err("unknown field")
    ELSE IF v.m[<<"a">>].kind # "str" \/ v.m[<<"b">>].kind # "str" THEN Err("invalid type")
    ELSE Ok([a |-> v.m[<<"a">>].s, b |-> v.m[<<"b">>].s])

\* from_value for Config: x takes an integer or a float, y a non-negative
\* integer, unknown keys are dropped unless the type denies them
FromValue(v, deny) ==
    IF ~IsMapping(v) THEN Err("invalid type")
    ELSE IF ~(ConfigFields \subseteq DOMAIN v.m) THEN Err("missing field")
    ELSE IF deny /\ ~(DOMAIN v.m \subseteq ConfigFields) THEN Err("unknown field")
    ELSE IF v.m[<<"x">>].kind \notin {"int", "float"} THEN Err("invalid type")
    ELSE IF v.m[<<"y">>].kind # "int" THEN Err("invalid type")
    ELSE IF v.m[<<"y">>].i < 0 THEN Err("invalid value")
    ELSE IF ~InnerFromValue(v.m[<<"inner">>], deny).ok THEN InnerFromValue(v.m[<<"inner">>], deny)
    ELSE Ok([x     |-> IF v.m[<<"x">>].kind = "int" THEN RInt(v.m[<<"x">>].i) ELSE v.m[<<"x">>].f,
             y     |-> v.m[<<"y">>].i,
             inner |-> InnerFromValue(v.m[<<"inner">>], deny).value,
             deny_unknown_fields |-> deny])

\* Patch::patch_from_value for T = Config: the new object, or the error
PatchFromValue(c, patch_value) ==
    FromValue(MergeValue(ToValue(c), patch_value), c.deny_unknown_fields)

\* str::split: the pieces of `str` between the occurrences of `sep`
RECURSIVE Split(_, _)
Split(str, sep) ==
    IF \A i \in DOMAIN str : str[i] # sep THEN <<str>>
    ELSE <<SubSeq(str, 1, SetMin({i \in DOMAIN str : str[i] = sep}) - 1)>>
         \o Split(SubSeq(str, SetMin({i \in DOMAIN str : str[i] = sep}) + 1, Len(str)), sep)

\* Iterator::rev
Rev(seq) == [i \in DOMAIN seq |-> seq[Len(seq) + 1 - i]]

\* `parts.fold(mapping, single_item_mapping)`: each further key wraps the
\* mapping made so far
RECURSIVE FoldSingleItemMapping(_, _)
FoldSingleItemMapping(parts, mapping) ==
    IF parts = << >> THEN mapping
    ELSE FoldSingleItemMapping(Tail(parts), SingleItemMapping(MapValue(mapping), Head(parts)))

\* the digits of a text made of the digit 7 only, as a number
RECURSIVE Digits(_)
Digits(t) == IF t = << >> THEN 0 ELSE 10 * Digits(SubSeq(t, 1, Len(t) - 1)) + 7

\* serde_yaml::from_str on a plain scalar: an integer, a float (digits with
\* one point), null for the empty document, a string otherwise
FromStr(t) ==
    IF t = << >> THEN Null
    ELSE IF \A i \in DOMAIN t : t[i] = "7" THEN IntValue(Digits(t))
    ELSE IF /\ \A i \in DOMAIN t : t[i] \in {"7", "."}
            /\ Len(Split(t, ".")) = 2
            /\ Len(t) > 1
    THEN FloatValue(Rat(Digits(Split(t, ".")[1]) * Pow(10, Len(Split(t, ".")[2]))
                            + Digits(Split(t, ".")[2]),
                        Pow(10, Len(Split(t, ".")[2]))))
    ELSE StrValue(t)

KeyPathMapping_NoRev(parts, value) ==
    FoldSingleItemMapping(Tail(parts), SingleItemMapping(value, Head(parts)))

\* `parts.fold(single_item_mapping(value, parts.next().unwrap()), single_item_mapping)`
\* for parts = tokens[0].split('.').rev(): the nested mapping of the key path,
\* built from the innermost key outwards
KeyPathMapping(parts, value) ==
    FoldSingleItemMapping(Tail(Rev(parts)), SingleItemMapping(value, Head(Rev(parts))))

\* Patch::patch_from_key_val, after the split at '='
PatchFromTokens(c, tokens) ==
    IF Len(tokens) # 2 \/ tokens[2] = << >>
    THEN Err("badly formed key=value")
    ELSE PatchFromValue(c, MapValue(KeyPathMapping(Split(tokens[1], "."), FromStr(tokens[2]))))

\* Patch::patch_from_key_val
PatchFromKeyVal(c, key_val_str) == PatchFromTokens(c, Split(key_val_str, "="))

\* the scalars of a patch
PatchScalars == {Null, IntValue(7), IntValue(-7), FloatValue(Rat(7, 2)), StrValue(<<"A">>)}

Absent == [kind |-> "absent"]

\* the mapping with the given values at the given keys, an Absent value leaving
\* the key out
MappingOf(keys, vals) ==
    MapValue([key \in {keys[i] : i \in {j \in DOMAIN keys : vals[j] # Absent}} |->
                 vals[CHOOSE i \in DOMAIN keys : keys[i] = key]])

\* the patches of Inner: each of a, b and the unknown key c is absent or a scalar
InnerPatches ==
    {MappingOf(<<<<"a">>, <<"b">>, <<"c">>>>, <<pa, pb, pc_>>) :
        pa \in PatchScalars \cup {Absent}, pb \in {StrValue(<<"A">>), IntValue(7), Absent},
        pc_ \in {IntValue(7), Absent}}

\* the patches: a scalar, or a mapping in which x, y, inner and the unknown
\* key z are absent, a scalar or (inner) a mapping
PatchValues ==
    PatchScalars \cup
    {MappingOf(<<<<"x">>, <<"y">>, <<"inner">>, <<"z">>>>, <<px, py, pinner, pz>>) :
        px \in {IntValue(7), FloatValue(Rat(7, 2)), StrValue(<<"A">>), Absent},
        py \in {IntValue(7), IntValue(-7), FloatValue(Rat(7, 2)), Null, Absent},
        pinner \in InnerPatches \cup {StrValue(<<"A">>), Absent},
        pz \in {IntValue(7), Absent}}

\* the pieces of text of a key=value string
KeyValAlphabet == {"y", "inner", "a", ".", "=", "7", "A"}

RECURSIVE StringsUpTo(_)
StringsUpTo(n) ==
    IF n = 0 THEN {<< >>}
    ELSE StringsUpTo(n - 1) \cup
         {Append(t, ch) : t \in {u \in StringsUpTo(n - 1) : Len(u) = n - 1}, ch \in KeyValAlphabet}

\* the Config of the tests, Config::default(), with and without
\* #[serde(deny_unknown_fields)] as on Configuration
PatchConfigs ==
    [x : {RInt(32)}, y : {512}, inner : {[a |-> <<"a">>, b |-> <<"b">>]},
     deny_unknown_fields : BOOLEAN]

InitPatch ==
    /\ config \in PatchConfigs
    /\ mesh = None
    /\ hydro = None
    /\ control = None
    /\ model = None
    /\ geometry = {}
    /\ state = None
    /\ pc = "patch"
    /\ foldLeft = 0
    /\ dt = None
    /\ s0 = None
    /\ rkpos = 0
    /\ entry = [state |-> None, calls |-> 0]
    /\ recon = NoRecon
    /\ tasks = << >>
    /\ phase = "atomic"
    /\ workers = 0
    /\ call = None
    /\ ret = None

\* a patch_* call that gives up the object before it has the merged one
Patched_TakenFirst(result) ==
    /\ ret' = IF result.ok THEN Ok("()") ELSE result
    /\ config' = IF result.ok THEN result.value ELSE None
    /\ UNCHANGED <<mesh, hydro, control, model, state, geometry, foldLeft, dt, s0, rkpos,
                   entry, recon, tasks, phase, workers>>

\* what a patch_* call leaves: `*self = merged_self` on success only
Patched(result) ==
    /\ ret' = IF result.ok THEN Ok("()") ELSE result
    /\ config' = IF result.ok THEN result.value ELSE config
    /\ UNCHANGED <<mesh, hydro, control, model, state, geometry, foldLeft, dt, s0, rkpos,
                   entry, recon, tasks, phase, workers>>

\* `config.patch_from_value(&patch_value)`
CallPatchFromValue ==
    /\ pc = "patch"
    /\ \E patch_value \in PatchValues :
          /\ call' = [fn |-> "patch_from_value", patch |-> patch_value, before |-> config]
          /\ Patched(PatchFromValue(config, patch_value))
    /\ pc' = "patched"

\* `config.patch_from_key_val(key_val_str)`
CallPatchFromKeyVal ==
    /\ pc = "patch"
    /\ \E key_val_str \in StringsUpTo(MaxKeyValLen) :
          /\ call' = [fn |-> "patch_from_key_val", key_val_str |-> key_val_str,
                      before |-> config]
          /\ Patched(PatchFromKeyVal(config, key_val_str))
    /\ pc' = "patched"

\* what serde_yaml::from_str makes of a YAML text: a parse error or a value
ParsedYaml == {Err("yaml")} \cup {Ok(v) : v \in PatchValues}

\* `config.patch_from_str(yaml_str)`: `self.patch_from_value(&from_str(yaml_str)?)`
CallPatchFromStr ==
    /\ pc = "patch"
    /\ \E parsed \in ParsedYaml :
          /\ call' = [fn |-> "patch_from_str", parsed |-> parsed, before |-> config]
          /\ Patched(IF parsed.ok THEN PatchFromValue(config, parsed.value) ELSE parsed)
    /\ pc' = "patched"

\* the same call once more, on the patched object
CallPatchAgain ==
    /\ pc = "patched"
    /\ ret.ok
    /\ call' = [call EXCEPT !.before = config] @@ [first |-> call.before]
    /\ Patched(IF call.fn = "patch_from_value" THEN PatchFromValue(config, call.patch)
               ELSE IF call.fn = "patch_from_str" THEN PatchFromValue(config, call.parsed.value)
               ELSE PatchFromKeyVal(config, call.key_val_str))
    /\ pc' = "patched again"

NextPatch == CallPatchFromValue \/ CallPatchFromStr \/ CallPatchFromKeyVal \/ CallPatchAgain

SpecPatch == InitPatch /\ [][NextPatch]_vars

(***************************************************************************)
(* Lookup tables (lookup_table.rs with rows (x, y), lookup_table_v2.rs     *)
(* with NUM_COLS = 2).  A table is [version, rows]; indices are those of   *)
(* the code, from 0, so that row i of the code is rows[i + 1].             *)
(***************************************************************************)
MaxTableX == 3
MaxRows == 3

\* LookupTable::compare_f64
CompareF64(a, b) ==
    IF RLt(a, b) THEN "Less" ELSE IF RLt(b, a) THEN "Greater" ELSE "Equal"

\* slice::binary_search_by with compare_f64(row[0], x), between left and right
RECURSIVE BinarySearchBy(_, _, _, _)
BinarySearchBy(rows, x, left, right) ==
    IF left >= right THEN Err(left)
    ELSE IF CompareF64(rows[left + (right - left) \div 2 + 1][1], x) = "Less"
         THEN BinarySearchBy(rows, x, left + (right - left) \div 2 + 1, right)
    ELSE IF CompareF64(rows[left + (right - left) \div 2 + 1][1], x) = "Greater"
         THEN BinarySearchBy(rows, x, left, left + (right - left) \div 2)
    ELSE Ok(left + (right - left) \div 2)

\* the index of either outcome: `Ok(index) => index, Err(index) => index`
SearchIndex(r) == IF r.ok THEN r.value ELSE r.error

\* indexes_straddling that takes the row found and the one after it
IndexesStraddling_FromFound(t, x) ==
    IF ~RLt(t.rows[1][1], x) THEN Panic
    ELSE IF t.version = 2 /\ RLt(t.rows[Len(t.rows)][1], x) THEN Panic
    ELSE IF BinarySearchBy(t.rows, x, 0, Len(t.rows)).ok
         THEN Ok(<<SearchIndex(BinarySearchBy(t.rows, x, 0, Len(t.rows))),
                   SearchIndex(BinarySearchBy(t.rows, x, 0, Len(t.rows))) + 1>>)
    ELSE Ok(<<SearchIndex(BinarySearchBy(t.rows, x, 0, Len(t.rows))) - 1,
              SearchIndex(BinarySearchBy(t.rows, x, 0, Len(t.rows)))>>)

\* LookupTable::indexes_straddling: the second version also panics above the
\* largest tabulated point.  index is at least 1 when x is above rows[0]
IndexesStraddling(t, x) ==
    IF ~RLt(t.rows[1][1], x) THEN Panic
    ELSE IF t.version = 2 /\ RLt(t.rows[Len(t.rows)][1], x) THEN Panic
    ELSE Ok(<<SearchIndex(BinarySearchBy(t.rows, x, 0, Len(t.rows))) - 1,
              SearchIndex(BinarySearchBy(t.rows, x, 0, Len(t.rows)))>>)

\* y0 + (x - x0) * (y1 - y0) / (x1 - x0), on column col of rows i0 and i1
Interpolate(rows, i0, i1, col, x) ==
    RAdd(rows[i0 + 1][col],
         RDiv(RMul(RSub(x, rows[i0 + 1][1]), RSub(rows[i1 + 1][col], rows[i0 + 1][col])),
              RSub(rows[i1 + 1][1], rows[i0 + 1][1])))

\* LookupTable::sample: v[i1] is out of bounds when i1 is the length; the
\* first version gives the y, the second the array of all columns
SampleAt(t, ix, x) ==
    IF ix = Panic THEN Panic
    ELSE IF ix.value[2] >= Len(t.rows) THEN Panic
    ELSE IF t.version = 1 THEN Ok(Interpolate(t.rows, ix.value[1], ix.value[2], 2, x))
    ELSE Ok(<<Interpolate(t.rows, ix.value[1], ix.value[2], 1, x),
              Interpolate(t.rows, ix.value[1], ix.value[2], 2, x)>>)

Sample(t, x) == SampleAt(t, IndexesStraddling(t, x), x)

\* LookupTable::new (panics) and LookupTable::from_rows (returns the error)
NewTable(version, rows) ==
    IF Len(rows) < 2
    THEN IF version = 1 THEN Panic ELSE Err("TableTooSmall")
    ELSE IF \E i \in 2..Len(rows) : ~RLt(rows[i - 1][1], rows[i][1])
    THEN IF version = 1 THEN Panic ELSE Err("UnorderedTable")
    ELSE Ok([version |-> version, rows |-> rows])

TableXs == {RInt(k) : k \in 0..MaxTableX}
TableYs == {RInt(0), RInt(1), RInt(3)}
SamplePoints == {Rat(k, 2) : k \in -1..(2 * MaxTableX + 1)}

RECURSIVE RowsUpTo(_)
RowsUpTo(n) ==
    IF n = 0 THEN {<< >>}
    ELSE RowsUpTo(n - 1) \cup
         {Append(r, <<x, y>>) : r \in {u \in RowsUpTo(n - 1) : Len(u) = n - 1},
                                x \in TableXs, y \in TableYs}

InitLookup ==
    /\ call \in {[fn |-> "LookupTable::new", version |-> v, rows |-> r] :
                    v \in {1, 2}, r \in RowsUpTo(MaxRows)}
    /\ config = None
    /\ ret = None
    /\ mesh = None
    /\ hydro = None
    /\ control = None
    /\ model = None
    /\ geometry = {}
    /\ state = None
    /\ pc = "new"
    /\ foldLeft = 0
    /\ dt = None
    /\ s0 = None
    /\ rkpos = 0
    /\ entry = [state |-> None, calls |-> 0]
    /\ recon = NoRecon
    /\ tasks = << >>
    /\ phase = "atomic"
    /\ workers = 0

\* `LookupTable::new(data)`, `LookupTable::from_rows(rows)`
CallNewTable ==
    /\ pc = "new"
    /\ ret' = NewTable(call.version, call.rows)
    /\ config' = IF ret' # Panic /\ ret'.ok THEN ret'.value ELSE None
    /\ pc' = IF config' = None THEN "no table" ELSE "table"
    /\ UNCHANGED <<call, mesh, hydro, control, model, state, geometry, foldLeft, dt, s0, rkpos,
                   entry, recon, tasks, phase, workers>>

\* `table.indexes_straddling(x)`
CallIndexesStraddling ==
    /\ pc = "table"
    /\ \E x \in SamplePoints :
          /\ call' = [fn |-> "indexes_straddling", x |-> x]
          /\ ret' = IndexesStraddling(config, x)
    /\ pc' = "sampled"
    /\ UNCHANGED <<config, mesh, hydro, control, model, state, geometry, foldLeft, dt, s0, rkpos,
                   entry, recon, tasks, phase, workers>>

\* `table.sample(x)`
CallSample ==
    /\ pc = "table"
    /\ \E x \in SamplePoints :
          /\ call' = [fn |-> "sample", x |-> x]
          /\ ret' = Sample(config, x)
    /\ pc' = "sampled"
    /\ UNCHANGED <<config, mesh, hydro, control, model, state, geometry, foldLeft, dt, s0, rkpos,
                   entry, recon, tasks, phase, workers>>

NextLookup == CallNewTable \/ CallIndexesStraddling \/ CallSample

SpecLookup == InitLookup /\ [][NextLookup]_vars

(***************************************************************************)
(* Snapshots (main.rs write_cbor / read_cbor, app.rs App).  The App is     *)
(* written with the Serialize and read with the Deserialize that serde     *)
(* derives: a struct is a map of its fields, an enum a map from the name   *)
(* of the variant, and a field marked #[serde(skip)] is neither written    *)
(* nor read: it is Default::default() after the read.                      *)
(***************************************************************************)
MaxSnapshot == 2

\* the contents of the ASCII file named by WindShock::initial_data_table
DataTable == [version |-> 2, rows |-> <<<<RInt(0), RInt(1)>>, <<RInt(1), RInt(3)>>>>]

\* the models as they are after from_str of a configuration
SnapshotModels ==
    {[setup |-> "jet_in_cloud"], [setup |-> "halo_kilonova"],
     [setup |-> "wind_shock", initial_data_table |-> Some("wind.dat"), lookup_table |-> None]}

SnapshotApps ==
    [state   : [time : 0..MaxSnapshot, iteration : 0..MaxSnapshot, solution : {{<<0, 0>>}}],
     tasks   : [write_checkpoint : [count : 0..MaxSnapshot]],
     config  : [hydro : {"newtonian", "relativistic"}, model : SnapshotModels],
     version : {"v0.1.0"}]

\* WindShock::require_lookup_table
RequireLookupTable(mdl) ==
    IF mdl.lookup_table = None THEN [mdl EXCEPT !.lookup_table = Some(DataTable)] ELSE mdl

\* what a call of InitialModel::primitive_at leaves of the model
AfterPrimitiveAt(mdl) ==
    IF mdl.setup = "wind_shock" /\ mdl.initial_data_table # None
    THEN RequireLookupTable(mdl) ELSE mdl

\* the derived Serialize of the model enum; lookup_table is #[serde(skip)]
SerializeModel(mdl) ==
    IF mdl.setup = "wind_shock"
    THEN [variant |-> "wind_shock", fields |-> [initial_data_table |-> mdl.initial_data_table]]
    ELSE [variant |-> mdl.setup, fields |-> << >>]

\* the derived Deserialize of the model enum
DeserializeModel(v) ==
    IF v.variant = "wind_shock"
    THEN [setup |-> "wind_shock", initial_data_table |-> v.fields.initial_data_table,
          lookup_table |-> IF "lookup_table" \in DOMAIN v.fields THEN v.fields.lookup_table
                           ELSE None]
    ELSE [setup |-> v.variant]

\* serde_cbor::to_writer(buffer, &app)
SerializeApp(app) ==
    <<"state", app.state, "tasks", app.tasks,
      "config", <<"hydro", app.config.hydro, "model", SerializeModel(app.config.model)>>,
      "version", app.version>>

\* serde_cbor::from_reader(buffer)
DeserializeApp(v) ==
    [state |-> v[2], tasks |-> v[4],
     config |-> [hydro |-> v[6][2], model |-> DeserializeModel(v[6][4])],
     version |-> v[8]]

InitSnapshot ==
    /\ config \in SnapshotApps
    /\ call = None
    /\ ret = None
    /\ mesh = None
    /\ hydro = None
    /\ control = None
    /\ model = None
    /\ geometry = {}
    /\ state = None
    /\ pc = "app"
    /\ foldLeft = 0
    /\ dt = None
    /\ s0 = None
    /\ rkpos = 0
    /\ entry = [state |-> None, calls |-> 0]
    /\ recon = NoRecon
    /\ tasks = << >>
    /\ phase = "atomic"
    /\ workers = 0

\* the model is evaluated (State::from_model, the boundary blocks of advance_rk)
CallPrimitiveAt ==
    /\ pc = "app"
    /\ call' = [fn |-> "primitive_at"]
    /\ config' = [config EXCEPT !.config.model = AfterPrimitiveAt(@)]
    /\ ret' = Ok("primitive")
    /\ UNCHANGED <<mesh, hydro, control, model, state, geometry, pc, foldLeft, dt, s0, rkpos,
                   entry, recon, tasks, phase, workers>>

\* `write_cbor(&app, &filename, ..)`
WriteCbor ==
    /\ pc = "app"
    /\ call' = [fn |-> "write_cbor", file |-> SerializeApp(config)]
    /\ ret' = Ok("()")
    /\ pc' = "written"
    /\ UNCHANGED <<config, mesh, hydro, control, model, state, geometry, foldLeft, dt, s0, rkpos,
                   entry, recon, tasks, phase, workers>>

\* `read_cbor(filename, ..)` of the file written
ReadCbor ==
    /\ pc = "written"
    /\ call' = [fn |-> "read_cbor", file |-> call.file]
    /\ ret' = Ok(DeserializeApp(call.file))
    /\ pc' = "read"
    /\ UNCHANGED <<config, mesh, hydro, control, model, state, geometry, foldLeft, dt, s0, rkpos,
                   entry, recon, tasks, phase, workers>>

NextSnapshot == CallPrimitiveAt \/ WriteCbor \/ ReadCbor

SpecSnapshot == InitSnapshot /\ [][NextSnapshot]_vars

(***************************************************************************)
(* The main loop (main.rs, run): `while state.time < control.final_time    *)
(* { side_effects(..)?; state = scheme::advance(.., control.fold)?; }`,    *)
(* then the side effects once more.  The configuration has passed          *)
(* validation.  The time step is that of the cell data, which is kept as   *)
(* it is seeded; the iteration counter is followed up to MaxRunIter.       *)
(***************************************************************************)
MaxRunFold == 2
MaxFinalTime == 2
MaxRunIter == 3

RunHydroSpace ==
    [backend            : {"Newtonian", "Relativistic"},
     plm_theta          : {Rat(3, 2)},
     cfl_number         : {Zero, Rat(1, 2)},
     adaptive_time_step : {FALSE},
     runge_kutta_order  : {"RK1"}]

RunControlSpace ==
    [fold : 0..MaxRunFold, start_time : {StartTime},
     final_time : {RInt(t) : t \in 1..MaxFinalTime},
     num_threads : {1}, checkpoint_interval : {1}, products_interval : {1}]

InitRun ==
    /\ mesh \in {m \in ConsMeshes : m.num_polar_zones = 1}
    /\ hydro \in RunHydroSpace
    /\ control \in RunControlSpace
    /\ model \in StartupModelSpace
    /\ ConfigurationValidate(hydro, model, mesh, control).ok
    /\ RLt(control.start_time, control.final_time)
    /\ geometry = GridBlocks(mesh, control.start_time)
    /\ state = [time      |-> control.start_time,
                iteration |-> Rat(0, 1),
                solution  |-> [i \in geometry |->
                                 SeededBlock(mesh, i,
                                     [r \in 1..NumZonesR(mesh) |-> [c \in 1..NumZonesQ(mesh) |->
                                         [density |-> RInt(1), energy |-> RInt(1),
                                          recovered |-> "Success"]]])]]
    /\ pc = "loop"
    /\ foldLeft = 0
    /\ dt = None
    /\ s0 = state
    /\ rkpos = 0
    /\ entry = [state |-> state, calls |-> 0]
    /\ recon = NoRecon
    /\ tasks = << >>
    /\ phase = "atomic"
    /\ workers = 1
    /\ call = None
    /\ config = None
    /\ ret = None

\* run: the loop test holds and the side effects are performed
RunSideEffects ==
    /\ pc = "loop"
    /\ RLt(state.time, control.final_time)
    /\ pc' = "advance"
    /\ UNCHANGED <<call, config, ret, mesh, hydro, control, model, state, geometry, foldLeft, dt,
                   s0, rkpos, entry, recon, taskVars>>

\* scheme::advance as a whole: `for _ in 0..fold`, each pass with the time
\* step of the hydrodynamics and one full Runge-Kutta step
RunAdvance ==
    /\ pc = "advance"
    /\ IF control.fold = 0
       THEN UNCHANGED <<state, dt>>
       ELSE \E r \in HydroTimeStep(hydro, mesh, state) :
               /\ r.ok
               /\ dt' = r
               /\ state' = [state EXCEPT
                     !.time      = RAdd(@, RMul(RInt(control.fold), r.value)),
                     !.iteration = RMin(RAdd(@, RInt(control.fold)), RInt(MaxRunIter))]
    /\ pc' = "loop"
    /\ UNCHANGED <<call, config, ret, mesh, hydro, control, model, geometry, foldLeft,
                   s0, rkpos, entry, recon, taskVars>>

\* run: the loop is left, the side effects are performed one last time and
\* the run ends
RunFinish ==
    /\ pc = "loop"
    /\ ~RLt(state.time, control.final_time)
    /\ pc' = "done"
    /\ UNCHANGED <<call, config, ret, mesh, hydro, control, model, state, geometry, foldLeft, dt,
                   s0, rkpos, entry, recon, taskVars>>

NextRun == RunSideEffects \/ RunAdvance \/ RunFinish

\* the thread of run goes on: the fairness of RunAdvance is written with its
\* enabling condition
FairRunAdvance ==
    \/ []<>(pc # "advance")
    \/ []<><<pc = "advance" /\ pc' # pc>>_vars

SpecRun ==
    InitRun /\ [][NextRun]_vars /\ WF_vars(RunSideEffects \/ RunFinish) /\ FairRunAdvance

(***************************************************************************)
(* Properties of the driver                                                *)
(***************************************************************************)
Keys(st) == DOMAIN st.solution
RadialIndexes(K) == {k[1] : k \in K}
BothMoving == mesh.inner_excision_speed > 0 /\ mesh.outer_excision_speed > 0

\* C3: block removal and insertion occur only at the top of a full step:
\* every advance_rk call and every weighted average returns a solution with
\* exactly the keys of its input, so that throughout the sub-steps of a full
\* step, and when the step is committed, the key set is the one the
\* Runge-Kutta driver saw at stage 0.
C3_KeysStableAcrossSubsteps ==
    pc \in {"rk", "top", "idle"} => Keys(state) = Keys(s0)

C3_Witness ==
    /\ pc = "top"
    /\ hydro.runge_kutta_order = "RK3"
    /\ recon.inserted # {}
    /\ recon.removed # {}
    /\ foldLeft < control.fold

\* C4: in every topology reconciliation a removal removes exactly the block
\* with the minimum radial index and an insertion inserts exactly the block at
\* index max+1, min and max being the extreme radial indices present before
\* the call; at most one block is removed and at most one is inserted.
C4_RemoveMinInsertMaxPlusOne ==
    (pc = "dt" /\ recon.called) =>
        /\ Cardinality(recon.removed) <= 1
        /\ Cardinality(recon.inserted) <= 1
        /\ \A r \in recon.removed :
              recon.pre # {} /\ r[1] = SetMin(RadialIndexes(recon.pre))
        /\ \A i \in recon.inserted :
              recon.pre # {} /\ i[1] = SetMax(RadialIndexes(recon.pre)) + 1

\* C5 as stated: with both excision surfaces moving outward, after any driver
\* step the number of blocks is never below the number before that step.
C5_CountNeverDecreases ==
    (recon.called /\ BothMoving) =>
        Cardinality(Keys(state)) >= Cardinality(recon.pre)

\* C5 as amended: with both excision surfaces moving outward, after any driver
\* step the number of blocks is never below the number before that step minus
\* one, and it is below that number only if the innermost block present
\* before the step had its outer radius below IES(t).
C5_CountDecreasesByAtMostOne ==
    (recon.called /\ BothMoving) =>
        /\ Cardinality(Keys(state)) >= Cardinality(recon.pre) - 1
        /\ Cardinality(Keys(state)) < Cardinality(recon.pre) =>
              /\ recon.pre # {}
              /\ SubgridOuterLt(mesh, <<SetMin(RadialIndexes(recon.pre)), 0>>,
                                InnerExcisionSurface(mesh, recon.time))

C5_Witness ==
    /\ recon.called /\ BothMoving
    /\ pc = "top"
    /\ Cardinality(Keys(state)) = Cardinality(recon.pre) - 1

\* C6: immediately after topology reconciliation at the start of a full step
\* at time t, the solution contains no block whose outer radius is less than
\* IES(t).
C6_NoBlockInsideIES ==
    (pc = "dt" /\ recon.called) =>
        \A i \in Keys(state) :
            ~SubgridOuterLt(mesh, i, InnerExcisionSurface(mesh, state.time))

\* C7: every block inserted at reconciliation time t lies entirely inside the
\* outer excision surface: its outer radius is below OES(t).
C7_InsertedInsideOES ==
    (pc = "dt" /\ recon.called) =>
        \A i \in recon.inserted :
            SubgridOuterLt(mesh, i, OuterExcisionSurface(mesh, state.time))

\* C8: for each Runge-Kutta order a completed full step adds exactly 1 to
\* state.iteration, so that a call of advance with a given fold increases the
\* iteration by exactly fold, and the iteration is an integer whenever it
\* started as one.
C8_IterationAdvancesByOne ==
    /\ pc = "top" =>
          state.iteration = RAdd(entry.state.iteration, RInt(control.fold - foldLeft))
    /\ (pc = "idle" /\ entry.calls > 0) =>
          state.iteration = RAdd(entry.state.iteration, RInt(control.fold))
    /\ (pc \in {"top", "idle"} /\ RIsInt(entry.state.iteration)) => RIsInt(state.iteration)

C8_Witness ==
    /\ pc = "idle"
    /\ entry.calls > 0
    /\ hydro.runge_kutta_order = "RK3"
    /\ control.fold = 2
    /\ state.iteration = RInt(2)

(***************************************************************************)
(* Properties of the tasks                                                 *)
(***************************************************************************)

\* C1: within one advance_rk call the update task of every block reads the
\* staged primitives and scalars of il, i0 and ir, in this order, and each
\* only when the staging task of that index has completed: no update task
\* ever observes a neighbour whose staging is queued or under way, in any
\* interleaving of the tasks on the workers.
C1_UpdateReadsOnlyStaged ==
    \A p \in DOMAIN tasks : \A i \in DOMAIN tasks[p].upd :
        LET u == tasks[p].upd[i]
        IN  /\ \A k \in 1..Len(u.saw) :
                  u.saw[k].index = Stencil(i)[k] /\ u.saw[k].status = "done"
            /\ u.st = "done" => Len(u.saw) = 3

C1_Witness ==
    /\ workers > 1
    /\ Cardinality(DOMAIN state.solution) > 1
    /\ \E p \in DOMAIN tasks :
          /\ tasks[p].op = "U"
          /\ \A i \in DOMAIN tasks[p].upd : tasks[p].upd[i].st = "done"
          /\ \E k \in DOMAIN tasks[p].stage : tasks[p].stage[k] = "done"

\* C2: between the operations of a full step there is a total barrier: no
\* staging, update or averaging task of a later operation is spawned before
\* every update task and every averaging task of every earlier operation has
\* completed, for every Runge-Kutta order and in any interleaving.
C2_BarrierBetweenSubsteps ==
    \A p \in DOMAIN tasks : \A q \in DOMAIN tasks :
        (/\ p < q
         /\ \/ \E k \in DOMAIN tasks[q].stage : tasks[q].stage[k] # "unspawned"
            \/ \E i \in DOMAIN tasks[q].upd : tasks[q].upd[i].st # "unspawned"
            \/ \E i \in DOMAIN tasks[q].avg : tasks[q].avg[i] # "unspawned")
        => /\ \A i \in DOMAIN tasks[p].upd : tasks[p].upd[i].st = "done"
           /\ \A i \in DOMAIN tasks[p].avg : tasks[p].avg[i] = "done"

C2_Witness ==
    /\ hydro.runge_kutta_order = "RK3"
    /\ Cardinality(DOMAIN state.solution) > 1
    /\ Len(tasks) = 5
    /\ \E i \in DOMAIN tasks[5].avg : tasks[5].avg[i] = "done"
    /\ \E i \in DOMAIN tasks[4].upd : tasks[4].upd[i].st = "done"

(***************************************************************************)
(* Properties of the cell data                                             *)
(***************************************************************************)
TotalOf(st, field) ==
    LET blocks == DOMAIN st.solution
        F[S \in SUBSET blocks] ==
            IF S = {} THEN Zero
            ELSE LET i == CHOOSE x \in S : TRUE
                 IN  RAdd(SumArray(st.solution[i][field]), F[S \ {i}])
    IN  F[blocks]

Advanced == pc = "top" /\ DOMAIN tasks # {}

\* C9: with zero geometric (and gravitational) source terms and no excision,
\* one advance_rk call changes the total of the conserved quantity and of the
\* scalar mass over all cells of all blocks only by dt times the flux*area
\* through the innermost radial face of the innermost block minus that through
\* the outermost radial face of the outermost block; the face shared by two
\* adjacent blocks gets the same flux*area from both (face nr of block i and
\* face 0 of block i+1), and the polar faces at theta = 0 and theta = pi carry
\* no flux.
C9_Conservation ==
    (Advanced /\ ~hydro.geometric_source) =>
        LET inner == InnerOuterBlockIndexes(s0)[1]
            outer == InnerOuterBlockIndexes(s0)[2]
            nr    == NumZonesR(mesh)
            nq    == NumZonesQ(mesh)
        IN  /\ RSub(TotalOf(state, "conserved"), TotalOf(s0, "conserved"))
                 = RMul(RInt(dt), RSub(SumRow(tasks[inner].fx[1]), SumRow(tasks[outer].fx[nr + 1])))
            /\ RSub(TotalOf(state, "scalar_mass"), TotalOf(s0, "scalar_mass"))
                 = RMul(RInt(dt), RSub(SumRow(tasks[inner].gx[1]), SumRow(tasks[outer].gx[nr + 1])))
            /\ \A i \in DOMAIN tasks :
                  Stencil(i)[3] \in DOMAIN tasks =>
                      /\ tasks[i].fx[nr + 1] = tasks[Stencil(i)[3]].fx[1]
                      /\ tasks[i].gx[nr + 1] = tasks[Stencil(i)[3]].gx[1]
            /\ mesh.num_polar_zones > 1 =>
                  \A i \in DOMAIN tasks : \A r \in 1..nr :
                      /\ tasks[i].fy[r][1] = Zero /\ tasks[i].fy[r][nq + 1] = Zero
                      /\ tasks[i].gy[r][1] = Zero /\ tasks[i].gy[r][nq + 1] = Zero

C9_Witness ==
    /\ Advanced /\ ~hydro.geometric_source
    /\ mesh.num_polar_zones > 1
    /\ Cardinality(DOMAIN tasks) > 1
    /\ TotalOf(state, "conserved") # TotalOf(s0, "conserved")
    /\ TotalOf(state, "scalar_mass") # TotalOf(s0, "scalar_mass")
    /\ \E i \in DOMAIN tasks :
          /\ Stencil(i)[3] \in DOMAIN tasks
          /\ SumRow(tasks[i].fx[NumZonesR(mesh) + 1]) # Zero
          /\ \E r \in 1..NumZonesR(mesh) : \E c \in 2..NumZonesQ(mesh) : tasks[i].fy[r][c] # Zero

(***************************************************************************)
(* Properties of the time step                                             *)
(***************************************************************************)
\* the cells of the state: block, row and column
Cells == {<<i, rc>> : i \in DOMAIN state.solution, rc \in {CellOrder(mesh)[k] : k \in DOMAIN CellOrder(mesh)}}
CellU(cell) == PerVolume(state.solution[cell[1]].conserved, mesh, cell[1], cell[2])
CellCentroid(cell) == Centroid(mesh, cell[1], cell[2][1] - 1, cell[2][2] - 1)
NegativeEnergyCells == {cell \in Cells : RLt(CellU(cell).energy, Zero)}
FailingCells == {cell \in Cells : ~TryToPrimitive(hydro, CellU(cell)).ok}
PerCellReduction == phase = "Hydrodynamics::time_step" \/ GlobalSignalSpeed(hydro) = None

\* C10 as stated: for any state in which some cell holds a conserved value
\* with negative energy density, time_step returns a NegativeEnergyDensity
\* error positioned at the centroid of such a cell, and never a time step.
C10_NegativeEnergyErrorAtCell ==
    (pc = "returned" /\ NegativeEnergyCells # {}) =>
        /\ ~dt.ok
        /\ dt.error.source.type = "NegativeEnergyDensity"
        /\ \E cell \in NegativeEnergyCells : dt.error.position = CellCentroid(cell)

\* C10 as amended: when time_step reduces over the cells (Hydrodynamics::
\* time_step, or State::time_step with global_signal_speed() = None) on the
\* relativistic back-end, a state with a cell of negative energy density never
\* yields a time step: the result is the error of a cell whose conversion
\* fails, positioned at that cell's centroid, and it is NegativeEnergyDensity
\* at the centroid of the seeded cell whenever that cell is the only one whose
\* conversion fails and its lab-frame density is not negative.
C10_ErrorAtFailingCell ==
    (pc = "returned" /\ PerCellReduction /\ hydro.backend = "Relativistic"
        /\ NegativeEnergyCells # {}) =>
        /\ ~dt.ok
        /\ \E cell \in FailingCells :
              /\ dt.error.position = CellCentroid(cell)
              /\ dt.error.source = TryToPrimitive(hydro, CellU(cell)).error
        /\ \A cell \in NegativeEnergyCells :
              (FailingCells = {cell} /\ ~RLt(CellU(cell).density, Zero)) =>
                  /\ dt.error.source.type = "NegativeEnergyDensity"
                  /\ dt.error.position = CellCentroid(cell)

C10_Witness ==
    /\ pc = "returned" /\ PerCellReduction /\ hydro.backend = "Relativistic"
    /\ phase = "State::time_step"
    /\ Cardinality(DOMAIN state.solution) > 1
    /\ \E cell \in NegativeEnergyCells :
          /\ FailingCells = {cell}
          /\ cell[2] # <<1, 1>>
          /\ ~dt.ok
          /\ dt.error.source.type = "NegativeEnergyDensity"
          /\ dt.error.position = CellCentroid(cell)

(***************************************************************************)
(* Properties of the conversion to primitive data                          *)
(***************************************************************************)
\* the cells (row, column) of the block that was converted whose conversion fails
FailingInBlock ==
    {rc \in (1..NumZonesR(mesh)) \X (1..NumZonesQ(mesh)) :
        ~TryToPrimitive(hydro, CellU(<<call.index, rc>>)).ok}

\* a comes no later than b in row-major order
RowMajorBefore(a, b) == a[1] < b[1] \/ (a[1] = b[1] /\ a[2] <= b[2])

\* C11: BlockState::try_to_primitive does not panic on a block whose arrays
\* have the shape of the geometry; when the back-end fails on a cell it
\* returns the error of the first failing cell in row-major order with the
\* centre (r, theta) of exactly that cell, and when no cell fails it returns
\* Ok with the primitives of the cells in an array of the same shape.
C11_FirstFailingCellReported ==
    (pc = "converted" /\ call.fn = "BlockState::try_to_primitive") =>
        /\ ret # Panic
        /\ FailingInBlock # {} =>
              /\ ~ret.ok
              /\ \E first \in FailingInBlock :
                    /\ \A other \in FailingInBlock : RowMajorBefore(first, other)
                    /\ ret.error.source = TryToPrimitive(hydro, CellU(<<call.index, first>>)).error
                    /\ ret.error.position = CellCentroid(<<call.index, first>>)
        /\ FailingInBlock = {} =>
              /\ ret.ok
              /\ Dim(ret.value) = Dim(CellCenters(mesh, call.index))
              /\ \A r \in 1..NumZonesR(mesh) : \A c \in 1..NumZonesQ(mesh) :
                    ret.value[r][c] = TryToPrimitive(hydro, CellU(<<call.index, <<r, c>>>>)).value

C11_Witness ==
    /\ pc = "converted" /\ call.fn = "BlockState::try_to_primitive"
    /\ FailingInBlock = {<<1, 2>>, <<2, 1>>}
    /\ TryToPrimitive(hydro, CellU(<<call.index, <<1, 2>>>>)).error.type = "NegativeEnergyDensity"
    /\ TryToPrimitive(hydro, CellU(<<call.index, <<2, 1>>>>)).error.type = "NegativeDensity"
    /\ ~ret.ok
    /\ ret.error.source.type = "NegativeEnergyDensity"
    /\ ret.error.position = CellCentroid(<<call.index, <<1, 2>>>>)

\* C12: the outcome of the back-end's try_to_primitive on a conserved state.
\* Newtonian: NegativeDensity when the mass density is negative, success
\* otherwise.  Relativistic: NegativeDensity when the lab-frame density is
\* negative (also when the energy density is negative too), else
\* NegativeEnergyDensity when the energy density is negative, else
\* RootFinderFailed when the root finder fails, else success; a negative
\* pressure is healed to 1e-3 times the density and is never an error.
C12_OutcomeOrder ==
    (pc = "converted" /\ call.fn = "Hydrodynamics::try_to_primitive") =>
        /\ hydro.backend = "Newtonian" =>
              IF RLt(call.u.density, Zero)
              THEN ~ret.ok /\ ret.error.type = "NegativeDensity"
              ELSE ret.ok
        /\ hydro.backend = "Relativistic" =>
              IF RLt(call.u.density, Zero)
              THEN ~ret.ok /\ ret.error.type = "NegativeDensity"
              ELSE IF RLt(call.u.energy, Zero)
              THEN ~ret.ok /\ ret.error.type = "NegativeEnergyDensity"
              ELSE IF call.u.recovered = "RootFinderFailed"
              THEN ~ret.ok /\ ret.error.type = "RootFinderFailed"
              ELSE /\ ret.ok
                   /\ call.u.recovered = "NegativePressure" =>
                         ret.value.gas_pressure = RMul(Rat(1, 1000), ret.value.mass_density)
        /\ ~ret.ok => ret.error.type # "NegativePressure"

C12_Witness ==
    /\ pc = "converted" /\ call.fn = "Hydrodynamics::try_to_primitive"
    /\ hydro.backend = "Relativistic"
    /\ RLt(call.u.density, Zero) /\ RLt(call.u.energy, Zero)
    /\ ~ret.ok /\ ret.error.type = "NegativeDensity"

(***************************************************************************)
(* Properties of the validation                                            *)
(***************************************************************************)
MeshValidated == pc = "validated" /\ call.fn = "Mesh::validate"

\* the times at which the excision surfaces are compared
SurfaceTimes == {RInt(t) : t \in 0..(MaxValidate + 2)} \cup {Rat(1, 2), Rat(3, 2)}

\* C13: the OES is never overtaken: for every mesh that passes Mesh::validate
\* the inner excision surface never exceeds the outer excision surface,
\* IES(t) <= OES(t) for every time t.
C13_OESNeverOvertaken ==
    (MeshValidated /\ ret.ok) =>
        \A t \in SurfaceTimes :
            ~RLt(OuterExcisionSurface(mesh, t), InnerExcisionSurface(mesh, t))

\* C14: Mesh::validate returns an error for every mesh in which one of
\* reference_radius, inner_radius, outer_radius is not positive (zero
\* included), and for every mesh whose reference radius exceeds the outer
\* excision surface at t = 0.
C14_RadiiPositiveAndInsideOES ==
    (MeshValidated
        /\ (\/ mesh.reference_radius <= 0 \/ mesh.inner_radius <= 0 \/ mesh.outer_radius <= 0
            \/ RLt(OuterExcisionSurface(mesh, Zero), RInt(mesh.reference_radius)))) =>
        ~ret.ok

\* the rules of the mesh that C15 lists
BreaksListedRule(m) ==
    \/ m.block_size < 2
    \/ (m.num_polar_zones # 1 /\ m.num_polar_zones < MinPolarZones)
    \/ (m.num_polar_zones = 1 /\ m.num_radial_zones = None)
    \/ m.inner_excision_speed < 0
    \/ m.outer_excision_speed < 0
    \/ m.outer_excision_speed < m.inner_excision_speed

PositiveRadiiInsideOES(m, time) ==
    /\ m.reference_radius > 0 /\ m.inner_radius > 0 /\ m.outer_radius > 0
    /\ ~RLt(OuterExcisionSurface(m, time), RInt(m.reference_radius))

\* C15 as stated: Mesh::validate returns an error whenever block_size < 2,
\* num_polar_zones is neither 1 nor >= 16, num_polar_zones = 1 with
\* num_radial_zones absent, an excision speed is negative, or
\* outer_excision_speed < inner_excision_speed; and it returns Ok for a mesh
\* with positive radii and reference radius inside the OES that breaks none
\* of these rules.
C15_ListedRulesDecide ==
    MeshValidated =>
        /\ BreaksListedRule(mesh) => ~ret.ok
        /\ (PositiveRadiiInsideOES(mesh, call.time) /\ ~BreaksListedRule(mesh)) => ret.ok

\* C15 as amended: the listed rules are errors, and a mesh with positive
\* radii and reference radius inside the OES at the start time that breaks
\* none of them is Ok exactly when its excision delay is absent or not
\* negative.
C15_ListedRulesAndDelayDecide ==
    MeshValidated =>
        /\ BreaksListedRule(mesh) => ~ret.ok
        /\ (PositiveRadiiInsideOES(mesh, call.time) /\ ~BreaksListedRule(mesh)) =>
              (ret.ok <=> ~(UnwrapOr(mesh.excision_delay, 0) < 0))

C15_Witness ==
    /\ MeshValidated
    /\ PositiveRadiiInsideOES(mesh, call.time) /\ ~BreaksListedRule(mesh)
    /\ mesh.excision_delay = Some(-1)
    /\ ~ret.ok
    /\ ret.error = "the excision delay time must be non-negative"

\* C16: for both back-ends validate() returns Ok if and only if plm_theta is
\* in [1, 2] and cfl_number is in [0, 0.7].
C16_HydroValidateIff ==
    (pc = "validated" /\ call.fn = "Hydrodynamics::validate") =>
        (ret.ok <=> /\ ~RLt(hydro.plm_theta, RInt(1)) /\ ~RLt(RInt(2), hydro.plm_theta)
                    /\ ~RLt(hydro.cfl_number, Zero) /\ ~RLt(Rat(7, 10), hydro.cfl_number))

(***************************************************************************)
(* Properties of the start-up                                              *)
(***************************************************************************)
InvalidConfiguration == ~ConfigurationValidate(hydro, model, mesh, control).ok

NoIntegration ==
    entry.calls = 0 /\ tasks.write_products = 0 /\ tasks.write_checkpoint = 0

GridLoopCutOnlyWhenEndless ==
    (pc = "grid_blocks" /\ call.i = MaxGridIndex
        /\ SubgridInnerLt(mesh, <<call.i, 0>>, OuterExcisionSurface(mesh, control.start_time))) =>
        (mesh.reference_radius <= 0 \/ mesh.block_size = 0)

(***************************************************************************)
(* Properties of the patches                                               *)
(***************************************************************************)
\* C18: patching is idempotent: a patch that succeeded, applied once more to
\* the patched configuration, succeeds and leaves it as it is,
\* patch(patch(c, p), p) = patch(c, p).
C18_PatchIdempotent ==
    pc = "patched again" => (ret.ok /\ config = call.before)

C18_Witness ==
    /\ pc = "patched again" /\ call.fn = "patch_from_value"
    /\ ret.ok /\ config = call.before
    /\ config # call.first
    /\ {<<"x">>, <<"inner">>, <<"z">>} \subseteq DOMAIN call.patch.m
    /\ call.patch.m[<<"x">>] = IntValue(7)
    /\ DOMAIN call.patch.m[<<"inner">>].m = {<<"a">>}

\* the leaves of Config, as key paths
ConfigLeaves == {<<<<"x">>>>, <<<<"y">>>>, <<<<"inner">>, <<"a">>>>, <<<<"inner">>, <<"b">>>>}

\* the value of a leaf of a Config, as a Value
LeafOf(c, path) ==
    IF path = <<<<"x">>>> THEN FloatValue(c.x)
    ELSE IF path = <<<<"y">>>> THEN IntValue(c.y)
    ELSE IF path = <<<<"inner">>, <<"a">>>> THEN StrValue(c.inner.a)
    ELSE StrValue(c.inner.b)

\* the patch names the key path: its keys are there, one inside the other
RECURSIVE Names(_, _)
Names(patch, path) ==
    /\ IsMapping(patch)
    /\ Head(path) \in DOMAIN patch.m
    /\ (Len(path) > 1 => Names(patch.m[Head(path)], Tail(path)))

\* what the patch gives at a key path that it names
RECURSIVE ValueAt(_, _)
ValueAt(patch, path) ==
    IF Len(path) = 1 THEN patch.m[Head(path)] ELSE ValueAt(patch.m[Head(path)], Tail(path))

\* a number read as the f64 it denotes
SameScalar(a, b) ==
    IF a.kind = "int" /\ b.kind = "float" THEN RInt(a.i) = b.f
    ELSE IF a.kind = "float" /\ b.kind = "int" THEN a.f = RInt(b.i)
    ELSE a = b

\* C19: patching with a mapping changes only the (nested) keys that the patch
\* names: every field that it does not name, siblings inside a partly named
\* nested mapping included, keeps its value, and every leaf that it names
\* takes the value of the patch.
C19_OnlyNamedKeysChange ==
    (pc = "patched" /\ call.fn = "patch_from_value" /\ ret.ok) =>
        \A path \in ConfigLeaves :
            IF Names(call.patch, path)
            THEN SameScalar(LeafOf(config, path), ValueAt(call.patch, path))
            ELSE LeafOf(config, path) = LeafOf(call.before, path)

C19_Witness ==
    /\ pc = "patched" /\ call.fn = "patch_from_value" /\ ret.ok
    /\ DOMAIN call.patch.m = {<<"y">>, <<"inner">>}
    /\ DOMAIN call.patch.m[<<"inner">>].m = {<<"a">>}
    /\ config.inner.a = <<"A">> /\ config.inner.b = call.before.inner.b
    /\ config.y = 7 /\ call.before.y = 512
    /\ config.x = call.before.x

\* the positions of '=' in a string
Equals(str) == {i \in DOMAIN str : str[i] = "="}

\* {k1: {k2: ... {kn: v}}}, from the left
RECURSIVE NestedMapping(_, _)
NestedMapping(keys, v) ==
    IF Len(keys) = 1 THEN MapValue(SingleItemMapping(v, keys[1]))
    ELSE MapValue(SingleItemMapping(NestedMapping(Tail(keys), v), keys[1]))

\* what C20 says the string does to the configuration it is given
KeyValExpected(c, str) ==
    IF Cardinality(Equals(str)) # 1 \/ SetMax(Equals(str) \cup {0}) = Len(str)
    THEN Err("badly formed key=value")
    ELSE PatchFromValue(c, NestedMapping(Split(SubSeq(str, 1, SetMin(Equals(str)) - 1), "."),
                                         FromStr(SubSeq(str, SetMin(Equals(str)) + 1, Len(str)))))

\* C20: the key-path override "k1.k2...kn=v" has the effect of patch_from_value
\* with the nested single-entry mapping {k1: {k2: ... {kn: v}}}, keys from
\* left to right, and a string that does not hold exactly one '=' or whose
\* value part is empty is rejected as 'badly formed key=value'.
C20_KeyValIsNestedPatch ==
    (pc = "patched" /\ call.fn = "patch_from_key_val") =>
        IF KeyValExpected(call.before, call.key_val_str).ok
        THEN ret.ok /\ config = KeyValExpected(call.before, call.key_val_str).value
        ELSE ret = KeyValExpected(call.before, call.key_val_str) /\ config = call.before

C20_Witness ==
    /\ pc = "patched" /\ call.fn = "patch_from_key_val"
    /\ call.key_val_str = <<"inner", ".", "a", "=", "A">>
    /\ ret.ok
    /\ config.inner.a = <<"A">> /\ config.inner.b = call.before.inner.b
    /\ config.y = call.before.y

\* the reasons for which a patch fails
BadlyFormed == Err("badly formed key=value")

\* C30: a patch that fails leaves the object as it was: whenever
\* patch_from_value, patch_from_str or patch_from_key_val returns an error (a
\* badly formed key=value string, a YAML parse error, a merged value that does
\* not deserialize), the object holds the value it held before the call.
C30_FailedPatchChangesNothing ==
    (pc \in {"patched", "patched again"} /\ ~ret.ok) => config = call.before

C30_Witness ==
    /\ pc = "patched" /\ ~ret.ok /\ ret # BadlyFormed
    /\ call.fn = "patch_from_key_val"
    /\ call.key_val_str = <<"inner", ".", "a", "=", "7">>
    /\ config = call.before

(***************************************************************************)
(* Properties of the lookup tables                                         *)
(***************************************************************************)
\* the smallest index, counted from 0, whose tabulated point is at or above x
FirstAtOrAbove(rows, x) == SetMin({i \in 0..(Len(rows) - 1) : ~RLt(rows[i + 1][1], x)})

\* the y of a sample of either version
SampledY(t, r) == IF t.version = 1 THEN r.value ELSE r.value[2]

\* C21: on a table whose left column increases strictly (at least two rows)
\* and for x above the lowest and not above the highest tabulated point,
\* indexes_straddling gives (i - 1, i) for the smallest i with x_i >= x, both
\* in bounds, and sample gives the linear interpolation between these rows,
\* which is the tabulated value at x = x_i; at or below the lowest point the
\* sample panics, and at the highest point it does not.
C21_StraddlingAndSample ==
    pc = "sampled" =>
        /\ (\A i \in 2..Len(config.rows) : RLt(config.rows[i - 1][1], config.rows[i][1]))
        /\ Len(config.rows) >= 2
        /\ ~RLt(config.rows[1][1], call.x) => ret = Panic
        /\ call.x = config.rows[Len(config.rows)][1] => ret # Panic
        /\ (RLt(config.rows[1][1], call.x) /\ ~RLt(config.rows[Len(config.rows)][1], call.x)) =>
              /\ ret # Panic
              /\ FirstAtOrAbove(config.rows, call.x) \in 1..(Len(config.rows) - 1)
              /\ call.fn = "indexes_straddling" =>
                    ret.value = <<FirstAtOrAbove(config.rows, call.x) - 1,
                                  FirstAtOrAbove(config.rows, call.x)>>
              /\ call.fn = "sample" =>
                    /\ SampledY(config, ret) =
                          Interpolate(config.rows, FirstAtOrAbove(config.rows, call.x) - 1,
                                      FirstAtOrAbove(config.rows, call.x), 2, call.x)
                    /\ call.x = config.rows[FirstAtOrAbove(config.rows, call.x) + 1][1] =>
                          SampledY(config, ret) =
                              config.rows[FirstAtOrAbove(config.rows, call.x) + 1][2]

C21_Witness ==
    /\ pc = "sampled" /\ call.fn = "sample"
    /\ config.rows = <<<<RInt(0), RInt(1)>>, <<RInt(1), RInt(3)>>, <<RInt(3), RInt(0)>>>>
    /\ call.x = RInt(1)
    /\ ret = IF config.version = 1 THEN Ok(RInt(3)) ELSE Ok(<<RInt(1), RInt(3)>>)

(***************************************************************************)
(* Properties of the snapshots                                             *)
(***************************************************************************)
\* C22: an App (state, tasks, configuration, version) written to a snapshot
\* and read back is equal to the App written in every field, every field of
\* the configured model included.
C22_RoundTrip ==
    pc = "read" => ret.value = config

\* the round trip gives back every field that serde writes
RoundTripOfWrittenFields ==
    pc = "read" =>
        /\ ret.value.state = config.state /\ ret.value.tasks = config.tasks
        /\ ret.value.version = config.version /\ ret.value.config.hydro = config.config.hydro
        /\ SerializeModel(ret.value.config.model) = SerializeModel(config.config.model)

(***************************************************************************)
(* Properties of the boundary blocks and of the block indexes              *)
(***************************************************************************)
\* a step of the driver that is one advance_rk call
UpdateStep ==
    /\ pc = "rk"
    /\ RKProgram(hydro.runge_kutta_order)[rkpos].op = "U"
    /\ pc' # "panic"
    /\ state' # state

\* C23: every advance_rk call stages exactly two ghost blocks besides the
\* blocks of the solution, at (min - 1, j) and (max + 1, j) next to the
\* innermost and the outermost block; both are built from the initial model
\* at the time of the input state of that sub-step, the blocks of the solution
\* are staged as they are, and the solution returned has the keys of the
\* input: no ghost block is in it.
C23_TwoGhostBlocks ==
    [][UpdateStep =>
        /\ call'.state = state
        /\ Cardinality(DOMAIN call'.stage_map \ DOMAIN state.solution) = 2
        /\ DOMAIN state.solution # {} =>
              DOMAIN call'.stage_map \ DOMAIN state.solution =
                  {<<SetMin(RadialIndexes(DOMAIN state.solution)) - 1, 0>>,
                   <<SetMax(RadialIndexes(DOMAIN state.solution)) + 1, 0>>}
        /\ \A g \in DOMAIN call'.stage_map \ DOMAIN state.solution :
              call'.stage_map[g] = [origin |-> "model", time |-> state.time]
        /\ \A k \in DOMAIN state.solution : call'.stage_map[k] = state.solution[k]
        /\ DOMAIN state'.solution = DOMAIN state.solution
        /\ DOMAIN state'.solution \cap (DOMAIN call'.stage_map \ DOMAIN state.solution) = {}
        /\ \A k \in DOMAIN state'.solution : state'.solution[k].origin = "updated"]_vars

C23_Witness ==
    /\ call # None /\ call.fn = "advance_rk"
    /\ pc = "rk" /\ rkpos = 3 /\ hydro.runge_kutta_order = "RK2"
    /\ DOMAIN state.solution = DOMAIN call.state.solution
    /\ RadialIndexes(DOMAIN state.solution) = {1, 2}
    /\ DOMAIN call.stage_map = {<<0, 0>>, <<1, 0>>, <<2, 0>>, <<3, 0>>}
    /\ RLt(RInt(0), call.state.time) /\ RLt(s0.time, call.state.time)
    /\ call.stage_map[<<0, 0>>] = [origin |-> "model", time |-> call.state.time]
    /\ call.stage_map[<<3, 0>>] = [origin |-> "model", time |-> call.state.time]

\* the radial indexes of K are a range min..max and every polar index is 0
Contiguous(K) ==
    /\ \A k \in K : k[2] = 0
    /\ K # {} => RadialIndexes(K) = SetMin(RadialIndexes(K))..SetMax(RadialIndexes(K))

\* C25: in every state of the driver the block indexes of the solution are a
\* contiguous range of radial indexes min..max with polar index 0, starting as
\* 0..n and changed, where there are blocks, only by a removal at min and an
\* insertion at max + 1; hence in advance_rk the update task of every block i finds the staged
\* entries of i-1, i and i+1, each a block of the solution or one of the two
\* boundary blocks, and no lookup in the stage map misses.
C25_ContiguousIndexes ==
    /\ Contiguous(Keys(state))
    /\ (pc = "idle" /\ entry.calls = 0 /\ Keys(state) # {}) =>
          SetMin(RadialIndexes(Keys(state))) = 0
    /\ (pc = "dt" /\ recon.called /\ recon.pre # {}) =>
          /\ recon.removed \subseteq {<<SetMin(RadialIndexes(recon.pre)), 0>>}
          /\ recon.inserted \subseteq {<<SetMax(RadialIndexes(recon.pre)) + 1, 0>>}
    /\ StageLookupsHit(state)
    /\ \A index \in Keys(state) : \A k \in 1..3 :
          \/ Stencil(index)[k] \in Keys(state)
          \/ Stencil(index)[k] \in {InnerOuterBoundaryIndexes(state)[1],
                                    InnerOuterBoundaryIndexes(state)[2]}
    /\ pc # "panic"

C25_Witness ==
    /\ call # None /\ call.fn = "advance_rk"
    /\ call.state.solution = s0.solution
    /\ recon.removed = {<<0, 0>>}
    /\ recon.inserted = {<<2, 0>>}
    /\ RadialIndexes(Keys(state)) = {1, 2}
    /\ pc = "top"
    /\ DOMAIN call.stage_map = {<<0, 0>>, <<1, 0>>, <<2, 0>>, <<3, 0>>}

\* C26: for every mesh that passes Mesh::validate the solution has blocks in
\* the initial state and after any sequence of topology reconciliations, so
\* that the innermost and outermost block indexes are those of blocks and
\* never the sentinels i32::MAX and i32::MIN of an empty map, and no block is
\* created at an index derived from a sentinel.
C26_SolutionNeverEmpty ==
    /\ Keys(state) # {}
    /\ InnerOuterBlockIndexes(state)[1] \in Keys(state)
    /\ InnerOuterBlockIndexes(state)[2] \in Keys(state)
    /\ <<I32MIN + 1, 0>> \notin Keys(state)

\* what holds instead: the solution has blocks whenever the mesh starts with
\* its outer excision surface beyond the reference radius and its inner one
\* inside the outer one
SolutionNeverEmptyWhenRegular ==
    (mesh.outer_radius > mesh.reference_radius /\ mesh.inner_radius <= mesh.outer_radius) =>
        C26_SolutionNeverEmpty

\* C27: in every state of the driver, with a fixed mesh, the geometry map has
\* an entry for every block index of the solution, also after a restart from
\* a checkpoint, where the map is built from grid_blocks at the time of the
\* state: the lookups geometry[index] of advance_rk never miss.
C27_GeometryCoversSolution == Keys(state) \subseteq geometry

\* what holds instead: the geometry covers the solution of every run whose
\* solution never gets empty
GeometryCoversSolutionWhenRegular ==
    (mesh.outer_radius > mesh.reference_radius /\ mesh.inner_radius <= mesh.outer_radius) =>
        C27_GeometryCoversSolution

\* a restart has rebuilt a geometry with more blocks than the solution has
RestartedWithMoreGeometry ==
    /\ pc = "rk"
    /\ Keys(state) # geometry
    /\ Keys(state) \subseteq geometry
    /\ recon.removed # {}

(***************************************************************************)
(* Properties of the scheduling                                            *)
(***************************************************************************)
\* the p-th operation of the Runge-Kutta program is an advance_rk call that
\* has been entered
AdvanceRkCalled(p) == pc = "rk" /\ rkpos = p /\ tasks[p].op = "U"

\* every update task of that call has completed and the call has returned
AdvanceRkReturned(p) ==
    /\ Len(tasks) >= p
    /\ \A i \in DOMAIN tasks[p].upd : tasks[p].upd[i].st = "done"
    /\ \A k \in DOMAIN tasks[p].stage : tasks[p].stage[k] = "done"
    /\ pc # "panic"
    /\ pc = "rk" => rkpos > p

\* C28: within one sub-step the tasks cannot deadlock, whatever the width of
\* the worker pool (one worker or more): a staging task waits for no task, an
\* update task is suspended only while it awaits the staged results of its
\* three stencil neighbours, and no task waits for an update task; under a
\* fair scheduler every update task of an advance_rk call completes and the
\* call returns.
C28_NoDeadlock ==
    \A p \in 1..Len(RKProgram("RK3")) : AdvanceRkCalled(p) ~> AdvanceRkReturned(p)

C28_Witness ==
    /\ workers = 1
    /\ pc = "rk" /\ phase = "join"
    /\ Cardinality(DOMAIN tasks[rkpos].upd) = 2
    /\ \E i \in DOMAIN tasks[rkpos].upd :
          /\ tasks[rkpos].upd[i].st = "awaiting"
          /\ tasks[rkpos].stage[Stencil(i)[Len(tasks[rkpos].upd[i].saw) + 1]] = "running"
    /\ \E k \in DOMAIN tasks[rkpos].stage : tasks[rkpos].stage[k] = "queued"

\* the update of cell (r, c) of block `index` by one advance_rk call, with
\* `grav` the gravitational source of the cell
CellUpdated(index, r, c, grav) ==
    LET vol  == CellVolumes(mesh, index)[r][c]
        p0   == ToPrimitive(RDiv(s0.solution[index].conserved[r][c], vol))
        geom == GeometricalSourceTerms(hydro, p0, Centroid(mesh, index, r - 1, c - 1))
        t    == tasks[index]
        divf == IF mesh.num_polar_zones = 1
                THEN RSub(t.fx[r + 1][c], t.fx[r][c])
                ELSE RAdd(RSub(t.fx[r + 1][c], t.fx[r][c]), RSub(t.fy[r][c + 1], t.fy[r][c]))
        divg == IF mesh.num_polar_zones = 1
                THEN RSub(t.gx[r + 1][c], t.gx[r][c])
                ELSE RAdd(RSub(t.gx[r + 1][c], t.gx[r][c]), RSub(t.gy[r][c + 1], t.gy[r][c]))
    IN  /\ state.solution[index].conserved[r][c] =
              RAdd(RAdd(RSub(s0.solution[index].conserved[r][c], RMul(RInt(dt), divf)),
                        RMul(RInt(dt), RMul(geom, vol))),
                   RMul(RInt(dt), RMul(grav, vol)))
        /\ state.solution[index].scalar_mass[r][c] =
              RSub(s0.solution[index].scalar_mass[r][c], RMul(RInt(dt), divg))

\* C24: one sub-step makes new_conserved = old_conserved - dt * (sum over the
\* faces of the cell of flux * face_area) + dt * geometrical_source * cell_volume
\* + dt * gravitational_source * cell_volume in every cell, in one and in two
\* dimensions, and updates the scalar mass from its fluxes alone.
C24_UpdateWithGravity ==
    Advanced =>
        \A index \in DOMAIN tasks : \A r \in 1..NumZonesR(mesh) : \A c \in 1..NumZonesQ(mesh) :
            CellUpdated(index, r, c,
                GravitationalSourceTerms(hydro,
                    ToPrimitive(RDiv(s0.solution[index].conserved[r][c],
                                     CellVolumes(mesh, index)[r][c])),
                    Centroid(mesh, index, r - 1, c - 1)))

\* what advance_rk computes: the same update with no gravitational source
UpdateWithoutGravity ==
    Advanced =>
        \A index \in DOMAIN tasks : \A r \in 1..NumZonesR(mesh) : \A c \in 1..NumZonesQ(mesh) :
            CellUpdated(index, r, c, Zero)

\* the update agrees with that of C24 for the back-end without gravity
UpdateWithGravityWhenNewtonian == hydro.backend = "newtonian" => C24_UpdateWithGravity

(***************************************************************************)
(* Properties of the main loop                                             *)
(***************************************************************************)
\* C29: for every configuration that passes validation and has start_time <
\* final_time the main loop terminates: state.time reaches final_time, the
\* side effects are performed one last time and the run ends.
C29_RunTerminates == <>(pc = "done")

\* every call of advance strictly increases state.time
AdvanceIncreasesTime == [][pc = "advance" => RLt(state.time, state'.time)]_vars

\* what holds instead: the loop terminates when fold and cfl_number are
\* positive
EndedOrNotStepping ==
    pc = "done" \/ control.fold = 0 \/ ~RLt(Zero, hydro.cfl_number)
RunTerminatesWhenStepping == <>EndedOrNotStepping

\* the run has ended at or beyond final_time after more than one call
RunEnded ==
    /\ pc = "done"
    /\ ~RLt(state.time, control.final_time)
    /\ control.fold = 2
    /\ state.iteration = RInt(MaxRunIter)

====
